---- MODULE Spec2Model ----
(***************************************************************************)
(* Model of pdf-to-excel-converter: the BOQ / spec-sheet extraction and    *)
(* classification pipeline (boq_parser.py, spec_sheet_parser.py,           *)
(* pdf_to_excel.py, excel_generator.py).                                   *)
(*                                                                         *)
(* Python str values are TLA+ strings; Len, \o, Head, Tail and SubSeq act  *)
(* on them character by character.  Python bytes values are sequences of   *)
(* integers 0..255.                                                        *)
(***************************************************************************)
EXTENDS Integers, Sequences, FiniteSets, TLC

VARIABLES
    description,    \* a description handed to the two BOQ helpers
    page_tables,    \* the tables of the page of a document handed to a parser
    unit,           \* what _extract_unit returned for it, None before the call
    category,       \* what _categorize_smoke_detector_item returned for it
    pdf_files,      \* batch_convert: the documents glob('*.pdf') found
    doc_type_arg,   \* batch_convert: its doc_type argument
    cur,            \* batch_convert: position of the for loop in pdf_files
    success_count,  \* batch_convert: success_count
    tally,          \* the counts printed by "Conversion complete"
    pc,             \* the line the program stands at
    doc_type,       \* convert_pdf_to_excel: its local doc_type
    df,             \* convert_pdf_to_excel: the frame the parser returned
    wb,             \* generator.wb: the sheets of the workbook, in order
    results,        \* what convert_pdf_to_excel returned, call by call
    saved,          \* the workbooks written by generator.save, in order
    steps,          \* per document, the steps of its conversion that ran
    decided,        \* per document, the types the auto detection assigned
    handles         \* the opening and closing of read handles, in order

itemvars == <<description, page_tables, unit, category>>
batchvars == <<pdf_files, doc_type_arg, cur, success_count, tally>>
callvars == <<pc, doc_type, df, wb>>
histvars == <<results, saved, steps, decided, handles>>
vars == <<itemvars, batchvars, callvars, histvars>>

\* Python's None (and pandas' NaN): a value no str of the model equals.
None == "<None>"

----------------------------------------------------------------------------
(* Python str primitives                                                   *)

\* str.lower() per character: ASCII capitals map to small letters, every
\* other character of the model's alphabet is unchanged.
LowerOf ==
    [A |-> "a", B |-> "b", C |-> "c", D |-> "d", E |-> "e", F |-> "f",
     G |-> "g", H |-> "h", I |-> "i", J |-> "j", K |-> "k", L |-> "l",
     M |-> "m", N |-> "n", O |-> "o", P |-> "p", Q |-> "q", R |-> "r",
     S |-> "s", T |-> "t", U |-> "u", V |-> "v", W |-> "w", X |-> "x",
     Y |-> "y", Z |-> "z"]

\* str.upper() per character.
UpperOf ==
    [a |-> "A", b |-> "B", c |-> "C", d |-> "D", e |-> "E", f |-> "F",
     g |-> "G", h |-> "H", i |-> "I", j |-> "J", k |-> "K", l |-> "L",
     m |-> "M", n |-> "N", o |-> "O", p |-> "P", q |-> "Q", r |-> "R",
     s |-> "S", t |-> "T", u |-> "U", v |-> "V", w |-> "W", x |-> "X",
     y |-> "Y", z |-> "Z"]

LowerChar(c) == IF c \in DOMAIN LowerOf THEN LowerOf[c] ELSE c
UpperChar(c) == IF c \in DOMAIN UpperOf THEN UpperOf[c] ELSE c

RECURSIVE Lower(_)
Lower(s) ==
    IF Len(s) <= 1 THEN LowerChar(s)
    ELSE Lower(SubSeq(s, 1, Len(s) \div 2))
            \o Lower(SubSeq(s, Len(s) \div 2 + 1, Len(s)))

RECURSIVE Upper(_)
Upper(s) ==
    IF Len(s) <= 1 THEN UpperChar(s)
    ELSE Upper(SubSeq(s, 1, Len(s) \div 2))
            \o Upper(SubSeq(s, Len(s) \div 2 + 1, Len(s)))

\* The character of s at position p (s[p - 1] in Python's zero-based
\* indexing), the empty string when s has no such position.
CharAt(s, p) == IF p >= 1 /\ p <= Len(s) THEN SubSeq(s, p, p) ELSE ""

\* Python `kw in s` on str: kw occurs as a contiguous substring of s.
Contains(s, kw) ==
    \E p \in 1..(Len(s) - Len(kw) + 1) : SubSeq(s, p, p + Len(kw) - 1) = kw

\* Concatenation of a sequence of strings.
RECURSIVE Concat(_)
Concat(ss) == IF ss = <<>> THEN "" ELSE Head(ss) \o Concat(Tail(ss))

----------------------------------------------------------------------------
(* boq_parser.py: BOQParser._extract_unit                                  *)

units == <<"nos", "no", "pcs", "pc", "set", "meter", "m", "ft", "each", "ea">>

\* The for loop of _extract_unit from list position i on: the first unit
\* that is a substring of desc_lower is returned upper-cased.
RECURSIVE extract_unit_scan(_, _)
extract_unit_scan(desc_lower, i) ==
    IF i > Len(units) THEN "NOS"
    ELSE IF Contains(desc_lower, units[i]) THEN Upper(units[i])
    ELSE extract_unit_scan(desc_lower, i + 1)

\* Faulty variant: the list is scanned from its end (shorter tokens before longer).
RECURSIVE extract_unit_backwards(_, _)
extract_unit_backwards(desc_lower, i) ==
    IF i < 1 THEN "NOS"
    ELSE IF Contains(desc_lower, units[i]) THEN Upper(units[i])
    ELSE extract_unit_backwards(desc_lower, i - 1)

extract_unit_reversed(d) == extract_unit_backwards(Lower(d), Len(units))

extract_unit(d) == extract_unit_scan(Lower(d), 1)

----------------------------------------------------------------------------
(* boq_parser.py: BOQParser._categorize_smoke_detector_item                *)

\* The dict literal, in insertion order (the order dict.items() iterates).
categories == <<
    [name |-> "Smoke Detectors",
     keywords |-> <<"smoke detector", "smoke alarm", "photoelectric",
                    "ionization", "heat detector">>],
    [name |-> "Control Panels",
     keywords |-> <<"control panel", "facp", "fire alarm control",
                    "annunciator", "repeater panel">>],
    [name |-> "Notification Devices",
     keywords |-> <<"horn", "strobe", "bell", "siren", "speaker",
                    "notification">>],
    [name |-> "Initiation Devices",
     keywords |-> <<"pull station", "manual pull", "call point",
                    "break glass">>],
    [name |-> "Installation Materials",
     keywords |-> <<"conduit", "wire", "cable", "junction box",
                    "mounting bracket", "backbox">>],
    [name |-> "Testing Equipment",
     keywords |-> <<"test kit", "test meter", "megger",
                    "smoke detector tester">>],
    [name |-> "Accessories",
     keywords |-> <<"battery", "power supply", "transformer", "relay",
                    "module">>],
    [name |-> "System Components",
     keywords |-> <<"addressable", "conventional", "analog",
                    "beam detector", "duct detector">>] >>

\* any(keyword in desc_lower for keyword in keywords)
any_keyword(desc_lower, keywords) ==
    \E j \in 1..Len(keywords) : Contains(desc_lower, keywords[j])

\* The for loop over categories.items() from position i on.
RECURSIVE categorize_scan(_, _)
categorize_scan(desc_lower, i) ==
    IF i > Len(categories) THEN "Other"
    ELSE IF any_keyword(desc_lower, categories[i].keywords)
         THEN categories[i].name
    ELSE categorize_scan(desc_lower, i + 1)

\* Faulty variant: the description is not lower-cased before the keyword search.
categorize_case_sensitive(d) == categorize_scan(d, 1)

categorize_smoke_detector_item(d) == categorize_scan(Lower(d), 1)

----------------------------------------------------------------------------
(* Outcomes of calls that may raise                                        *)

\* The call raised an exception.
Raised == [ok |-> FALSE]
\* The call returned v.
Returned(v) == [ok |-> TRUE, value |-> v]

----------------------------------------------------------------------------
(* boq_parser.py: BOQParser.parse_boq_structure                            *)

\* Characters matched by \s and removed by str.strip().
IsSpace(c) == c \in {" ", "\t", "\n", "\r", "\f"}
\* Characters matched by \d.
IsDigit(c) == c \in {"0", "1", "2", "3", "4", "5", "6", "7", "8", "9"}

\* text.split('\n')
RECURSIVE SplitLines(_, _)
SplitLines(text, p) ==
    LET breaks == {x \in p..Len(text) : CharAt(text, x) = "\n"}
    IN  IF breaks = {} THEN <<text>>
        ELSE LET b == CHOOSE x \in breaks : \A y \in breaks : x <= y
             IN  <<SubSeq(text, 1, b - 1)>>
                    \o SplitLines(SubSeq(text, b + 1, Len(text)), 1)

RECURSIVE LStrip(_)
LStrip(s) == IF s # "" /\ IsSpace(Head(s)) THEN LStrip(Tail(s)) ELSE s

RECURSIVE RStrip(_)
RStrip(s) ==
    IF s # "" /\ IsSpace(CharAt(s, Len(s)))
    THEN RStrip(SubSeq(s, 1, Len(s) - 1)) ELSE s

\* line.strip()
Strip(s) == RStrip(LStrip(s))

\* Length of the longest run of digits of s that starts at position p.
RECURSIVE DigitsRun(_, _)
DigitsRun(s, p) ==
    IF p <= Len(s) /\ IsDigit(CharAt(s, p)) THEN 1 + DigitsRun(s, p + 1) ELSE 0

\* Length of the longest run of whitespace of s that starts at position p.
RECURSIVE SpaceRun(_, _)
SpaceRun(s, p) ==
    IF p <= Len(s) /\ IsSpace(CharAt(s, p)) THEN 1 + SpaceRun(s, p + 1) ELSE 0

\* Group 1, ^(\d+\.?\d*): the number of characters the greedy match takes,
\* 0 when s does not start with a digit.
ItemNoLen(s) ==
    LET n1 == DigitsRun(s, 1)
        dot == IF CharAt(s, n1 + 1) = "." THEN 1 ELSE 0
    IN  IF n1 = 0 THEN 0 ELSE n1 + dot + DigitsRun(s, n1 + dot + 1)

\* t matches \d+(?:\.\d+)? as a whole.
IsQuantity(t) ==
    LET n1 == DigitsRun(t, 1)
        n2 == DigitsRun(t, n1 + 2)
    IN  /\ n1 >= 1
        /\ \/ n1 = Len(t)
           \/ CharAt(t, n1 + 1) = "." /\ n2 >= 1 /\ n1 + 1 + n2 = Len(t)

\* rest matches \s+(\d+(?:\.\d+)?)\s*$ ; rest never ends in whitespace, the
\* line having been stripped.
IsQuantityTail(rest) ==
    LET ws == SpaceRun(rest, 1)
    IN  ws >= 1 /\ IsQuantity(SubSeq(rest, ws + 1, Len(rest)))

\* Group 2, (.+?): the lazy match takes the fewest characters of r after
\* which the rest of the pattern matches.
RECURSIVE DescriptionLen(_, _)
DescriptionLen(r, k) ==
    IF k >= Len(r) THEN Len(r)
    ELSE IF IsQuantityTail(SubSeq(r, k + 1, Len(r))) THEN k
    ELSE DescriptionLen(r, k + 1)

\* re.match(r'^(\d+\.?\d*)\s+(.+?)(?:\s+(\d+(?:\.\d+)?))?\s*$', s) for a
\* stripped s: no match, or the three groups.
item_match(s) ==
    LET n == ItemNoLen(s)
        ws == SpaceRun(s, n + 1)
        r == SubSeq(s, n + ws + 1, Len(s))
        k == DescriptionLen(r, 1)
        tail == SubSeq(r, k + 1, Len(r))
    IN  IF n = 0 \/ ws = 0 \/ r = "" THEN [matched |-> FALSE]
        ELSE [matched |-> TRUE,
              group1 |-> SubSeq(s, 1, n),
              group2 |-> SubSeq(r, 1, k),
              group3 |-> IF tail = "" THEN None
                         ELSE SubSeq(tail, SpaceRun(tail, 1) + 1, Len(tail))]

\* Faulty variant of item_of: the quantity stays in the description.
item_of_quantity_kept(m) ==
    LET item_no == m.group1
        desc == IF m.group3 = None THEN m.group2
                ELSE m.group2 \o " " \o m.group3
        quantity == m.group3
    IN  ("Item No" :> item_no) @@ ("Description" :> desc)
        @@ ("Quantity" :> quantity)
        @@ ("Unit" :> extract_unit(desc))
        @@ ("Category" :> categorize_smoke_detector_item(desc))

\* The dict appended to items for a matching line.
item_of(m) ==
    LET item_no == m.group1
        desc == m.group2
        quantity == m.group3
    IN  ("Item No" :> item_no) @@ ("Description" :> desc)
        @@ ("Quantity" :> quantity)
        @@ ("Unit" :> extract_unit(desc))
        @@ ("Category" :> categorize_smoke_detector_item(desc))

\* Faulty variant of parse_lines: the loop ends at the first line that does
\* not match.
RECURSIVE parse_lines_until_unmatched(_)
parse_lines_until_unmatched(lines) ==
    IF lines = <<>> THEN <<>>
    ELSE LET m == item_match(Strip(Head(lines)))
         IN  IF m.matched
             THEN <<item_of(m)>> \o parse_lines_until_unmatched(Tail(lines))
             ELSE <<>>

\* The for loop over the lines.
RECURSIVE parse_lines(_)
parse_lines(lines) ==
    IF lines = <<>> THEN <<>>
    ELSE LET m == item_match(Strip(Head(lines)))
         IN  (IF m.matched THEN <<item_of(m)>> ELSE <<>>)
                 \o parse_lines(Tail(lines))

parse_boq_structure(text) == parse_lines(SplitLines(text, 1))

----------------------------------------------------------------------------
(* pandas.DataFrame: the column labels in order and the rows, each a       *)
(* function from column label to cell value                                *)

DataFrame(columns, rows) == [columns |-> columns, rows |-> rows]

\* pd.DataFrame([]) and pd.DataFrame()
EmptyFrame == DataFrame(<<>>, <<>>)

TextModeColumns == <<"Item No", "Description", "Quantity", "Unit", "Category">>

\* pd.DataFrame(items) for a list of dicts that all have the same keys.
FrameOfItems(items) ==
    IF items = <<>> THEN EmptyFrame ELSE DataFrame(TextModeColumns, items)

\* df.empty
IsEmptyFrame(frame) == frame.columns = <<>> \/ frame.rows = <<>>

\* pd.DataFrame(table[1:], columns=table[0]) for a rectangular table.
FrameOfTable(table) ==
    LET header == table[1]
    IN  DataFrame(header,
            [r \in 1..(Len(table) - 1) |->
                [c \in {header[j] : j \in 1..Len(header)} |->
                    table[r + 1][CHOOSE j \in 1..Len(header) : header[j] = c]]])

InSeq(x, seq) == \E j \in 1..Len(seq) : seq[j] = x

\* The labels of b that a lacks, in b's order.
RECURSIVE NewLabels(_, _)
NewLabels(a, b) ==
    IF b = <<>> THEN <<>>
    ELSE (IF InSeq(Head(b), a) THEN <<>> ELSE <<Head(b)>>)
            \o NewLabels(a \o <<Head(b)>>, Tail(b))

\* The union of the frames' column labels, in order of first appearance.
RECURSIVE UnionColumns(_)
UnionColumns(frames) ==
    IF frames = <<>> THEN <<>>
    ELSE LET rest == UnionColumns(SubSeq(frames, 1, Len(frames) - 1))
         IN  rest \o NewLabels(rest, frames[Len(frames)].columns)

\* A row widened to the columns cols: NaN where the row has no value.
Reindexed(row, cols) ==
    [c \in {cols[j] : j \in 1..Len(cols)} |->
        IF c \in DOMAIN row THEN row[c] ELSE None]

RECURSIVE AllRows(_, _)
AllRows(frames, cols) ==
    IF frames = <<>> THEN <<>>
    ELSE [r \in 1..Len(Head(frames).rows) |->
              Reindexed(Head(frames).rows[r], cols)]
            \o AllRows(Tail(frames), cols)

\* pd.concat(tables, ignore_index=True)
concat(frames) ==
    LET cols == UnionColumns(frames)
    IN  DataFrame(cols, AllRows(frames, cols))

\* df[label] = values: an existing column is overwritten in place, a new one
\* is appended as the last column.
with_column(frame, label, values) ==
    DataFrame(IF InSeq(label, frame.columns) THEN frame.columns
              ELSE frame.columns \o <<label>>,
              [r \in 1..Len(frame.rows) |->
                  [c \in DOMAIN frame.rows[r] \cup {label} |->
                      IF c = label THEN values[r] ELSE frame.rows[r][c]]])

\* row.get(label, default)
row_get(row, label, default) ==
    IF label \in DOMAIN row THEN row[label] ELSE default

----------------------------------------------------------------------------
(* boq_parser.py: extract_text, extract_tables, parse.  A document is what *)
(* the file system and pdfplumber yield for a path: pages, each with the   *)
(* text page.extract_text() returns (None for a page without text) and the *)
(* tables page.extract_tables() returns (rows of cells, a cell a str or    *)
(* None); pdfplumber.open raises for a file that cannot be read.           *)

RECURSIVE PagesText(_)
PagesText(pages) ==
    IF pages = <<>> THEN ""
    ELSE Head(pages).text \o "\n" \o PagesText(Tail(pages))

\* Lines 25-31 (and spec_sheet_parser.py 13-19): None + "\n" raises TypeError.
extract_text(doc) ==
    IF ~doc.readable THEN Raised
    ELSE IF \E p \in 1..Len(doc.pages) : doc.pages[p].text = None THEN Raised
    ELSE Returned(PagesText(doc.pages))

\* The frames of the non-empty tables of one page.
RECURSIVE TableFrames(_)
TableFrames(tables) ==
    IF tables = <<>> THEN <<>>
    ELSE (IF Head(tables) # <<>> THEN <<FrameOfTable(Head(tables))>> ELSE <<>>)
            \o TableFrames(Tail(tables))

RECURSIVE PagesTables(_)
PagesTables(pages) ==
    IF pages = <<>> THEN <<>>
    ELSE TableFrames(Head(pages).tables) \o PagesTables(Tail(pages))

\* Lines 13-23 (and spec_sheet_parser.py 21-31).
extract_tables(doc) ==
    IF ~doc.readable THEN Raised ELSE Returned(PagesTables(doc.pages))

\* Lines 91-93: the table branch of parse.  df.iloc[:, 1] raises IndexError
\* for a frame with fewer than two columns; the classifier raises
\* AttributeError on a cell that is no str (None, NaN).
parse_tables(tables) ==
    LET frame == concat(tables)
        second == frame.columns[2]
    IN  IF Len(frame.columns) < 2 THEN Raised
        ELSE IF \E r \in 1..Len(frame.rows) : frame.rows[r][second] = None
        THEN Raised
        ELSE Returned(with_column(frame, "Category",
                [r \in 1..Len(frame.rows) |->
                    categorize_smoke_detector_item(frame.rows[r][second])]))

\* Faulty variant of boq_parse: the text is parsed although tables exist.
boq_parse_text_only(doc) ==
    LET text == extract_text(doc)
        found == extract_tables(doc)
    IN  IF ~text.ok \/ ~found.ok THEN Raised
        ELSE Returned(FrameOfItems(parse_boq_structure(text.value)))

\* BOQParser.parse, lines 85-96.
boq_parse(doc) ==
    LET text == extract_text(doc)
        tables == extract_tables(doc)
    IN  IF ~text.ok \/ ~tables.ok THEN Raised
        ELSE IF tables.value # <<>> THEN parse_tables(tables.value)
        ELSE Returned(FrameOfItems(parse_boq_structure(text.value)))

----------------------------------------------------------------------------
(* spec_sheet_parser.py: extract_product_info, extract_features, parse     *)

IsLetter(c) == c \in DOMAIN LowerOf \/ c \in DOMAIN UpperOf

\* str.title(): a letter is upper-cased after a non-letter, lower-cased
\* after a letter.
RECURSIVE TitleFrom(_, _)
TitleFrom(s, after_letter) ==
    IF s = "" THEN ""
    ELSE (IF after_letter THEN LowerChar(Head(s)) ELSE UpperChar(Head(s)))
            \o TitleFrom(Tail(s), IsLetter(Head(s)))

Title(s) == TitleFrom(s, FALSE)

\* [A-Z0-9-] under re.IGNORECASE
IsTokenChar(c) == IsLetter(c) \/ IsDigit(c) \/ c = "-"

RECURSIVE RunLen(_, _, _)
RunLen(s, p, chars) ==
    IF p <= Len(s) /\ CharAt(s, p) \in chars
    THEN 1 + RunLen(s, p + 1, chars) ELSE 0

RECURSIVE TokenRun(_, _)
TokenRun(s, p) ==
    IF p <= Len(s) /\ IsTokenChar(CharAt(s, p))
    THEN 1 + TokenRun(s, p + 1) ELSE 0

\* re.search(word + '[' + seps + ']+([A-Z0-9-]+)', text, re.IGNORECASE) from
\* position p on: group 1 of the leftmost match, None when there is none.
RECURSIVE search_model(_, _, _, _)
search_model(text, word, seps, p) ==
    LET q == p + Len(word)
        n == RunLen(text, q, seps)
        t == TokenRun(text, q + n)
    IN  IF q - 1 > Len(text) THEN None
        ELSE IF Lower(SubSeq(text, p, q - 1)) = Lower(word) /\ n >= 1 /\ t >= 1
        THEN SubSeq(text, q + n, q + n + t - 1)
        ELSE search_model(text, word, seps, p + 1)

\* Lines 42-46: the words of the three patterns and their separator classes.
model_patterns == <<
    [word |-> "Model", seps |-> {":", " ", "\t", "\n", "\r", "\f"}],
    [word |-> "Part", seps |-> {":", " ", "\t", "\n", "\r", "\f", "#"}],
    [word |-> "SKU", seps |-> {":", " ", "\t", "\n", "\r", "\f"}] >>

\* Lines 48-52: the first pattern that matches gives the model number.
RECURSIVE model_number(_, _)
model_number(text, i) ==
    IF i > Len(model_patterns) THEN ""
    ELSE LET m == search_model(text, model_patterns[i].word,
                               model_patterns[i].seps, 1)
         IN  IF m # None THEN m ELSE model_number(text, i + 1)

product_types == <<"smoke detector", "heat detector", "control panel",
                   "notification device", "horn", "strobe", "pull station",
                   "duct detector", "beam detector">>

\* Lines 57-61.
RECURSIVE product_type(_, _)
product_type(text_lower, i) ==
    IF i > Len(product_types) THEN ""
    ELSE IF Contains(text_lower, product_types[i]) THEN Title(product_types[i])
    ELSE product_type(text_lower, i + 1)

feature_keywords == <<"addressable", "wireless", "photoelectric", "ionization",
                      "multi-sensor", "dual sensor", "heat detection",
                      "smoke detection", "tamper resistant", "led indicator",
                      "test button", "low battery", "self-diagnostic",
                      "drift compensation", "alarm memory">>

\* Faulty variant of features_from: a keyword after the word not is passed
\* over.
RECURSIVE features_from_unnegated(_, _)
features_from_unnegated(text_lower, i) ==
    IF i > Len(feature_keywords) THEN <<>>
    ELSE (IF Contains(text_lower, feature_keywords[i])
             /\ ~Contains(text_lower, "not " \o feature_keywords[i])
          THEN <<Title(feature_keywords[i])>> ELSE <<>>)
            \o features_from_unnegated(text_lower, i + 1)

\* Lines 119-124.
RECURSIVE features_from(_, _)
features_from(text_lower, i) ==
    IF i > Len(feature_keywords) THEN <<>>
    ELSE (IF Contains(text_lower, feature_keywords[i])
          THEN <<Title(feature_keywords[i])>> ELSE <<>>)
            \o features_from(text_lower, i + 1)

extract_features(text) == features_from(Lower(text), 1)

\* Lines 91-100: each pattern is a word, \s*, and then a run of digits (with
\* one more letter for UL) or a second word.
standard_patterns == <<
    [word |-> "UL", tail |-> "", letter |-> TRUE],
    [word |-> "NFPA", tail |-> "", letter |-> FALSE],
    [word |-> "FM", tail |-> "Approved", letter |-> FALSE],
    [word |-> "CE", tail |-> "Certified", letter |-> FALSE],
    [word |-> "EN", tail |-> "", letter |-> FALSE],
    [word |-> "ISO", tail |-> "", letter |-> FALSE],
    [word |-> "BS", tail |-> "", letter |-> FALSE],
    [word |-> "CSA", tail |-> "Certified", letter |-> FALSE] >>

\* The length of the match of the pattern that starts at position p of the
\* text under re.IGNORECASE, 0 when there is none.
standard_match(text, p, pattern) ==
    LET q == p + Len(pattern.word)
        n == SpaceRun(text, q)
        d == DigitsRun(text, q + n)
        t == Len(pattern.tail)
    IN  IF q - 1 > Len(text) THEN 0
        ELSE IF Lower(SubSeq(text, p, q - 1)) # Lower(pattern.word) THEN 0
        ELSE IF pattern.tail # ""
        THEN (IF q + n + t - 1 <= Len(text)
                 /\ Lower(SubSeq(text, q + n, q + n + t - 1)) = Lower(pattern.tail)
              THEN Len(pattern.word) + n + t ELSE 0)
        ELSE IF d = 0 THEN 0
        ELSE Len(pattern.word) + n + d
                + (IF pattern.letter /\ IsLetter(CharAt(text, q + n + d))
                   THEN 1 ELSE 0)

\* re.findall(pattern, text, re.IGNORECASE) from position p on: the matches
\* from left to right, none overlapping another.
RECURSIVE findall(_, _, _)
findall(pattern, text, p) ==
    LET starts == {x \in p..Len(text) : standard_match(text, x, pattern) > 0}
    IN  IF starts = {} THEN <<>>
        ELSE LET x == CHOOSE x \in starts : \A y \in starts : x <= y
                 m == standard_match(text, x, pattern)
             IN  <<SubSeq(text, x, x + m - 1)>> \o findall(pattern, text, x + m)

\* Faulty variant of upper_all: the matches are kept as they are written.
upper_none(matches) == matches

\* Line 104: [m.upper() for m in matches]
upper_all(matches) == [k \in 1..Len(matches) |-> Upper(matches[k])]

\* Lines 102-104: the list standards before it is made a set.
RECURSIVE standards_found(_, _)
standards_found(text, i) ==
    IF i > Len(standard_patterns) THEN <<>>
    ELSE upper_all(findall(standard_patterns[i], text, 1))
            \o standards_found(text, i + 1)

\* Line 106: list(set(standards)).  The order in which a set of str is
\* iterated is not fixed: every order of its elements is a possible result.
extract_standards_compliance(text) ==
    LET found == standards_found(text, 1)
        S == {found[k] : k \in 1..Len(found)}
    IN  {order \in [1..Cardinality(S) -> S] :
            \A i, j \in 1..Cardinality(S) : i # j => order[i] # order[j]}

\* Lines 69-78: the eight patterns.  Each is a word, [:\s]+ and group 1;
\* group 1 is given by its items in order, an item a character class with
\* its least count and whether it repeats, or alternatives in the order of
\* the pattern (the empty alternative last for an item that may be absent).
\* Letters stand in lower case: the search ignores case.  The optional
\* Operating\s+ before Voltage does not change group 1 and is left out; the
\* degree sign, the multiplication sign and the superscript two are left
\* out: the texts are ASCII.
tech_patterns ==
    LET Class(chars, least, repeats) ==
            [chars |-> chars, least |-> least, repeats |-> repeats,
             alts |-> <<>>]
        Alt(alts) ==
            [chars |-> {}, least |-> 0, repeats |-> FALSE, alts |-> alts]
        digit == {"0", "1", "2", "3", "4", "5", "6", "7", "8", "9"}
        space == {" ", "\t", "\n", "\r", "\f"}
        gap == Class(space, 0, TRUE)
        number == Class(digit \cup {".", "-"}, 1, TRUE)
        decimal == Class(digit \cup {"."}, 1, TRUE)
        integer == Class(digit, 1, TRUE)
        minus == Class({"-"}, 0, FALSE)
    IN  << [name |-> "Operating Voltage", word |-> "voltage",
            items |-> <<number, gap, Alt(<<"v", "vac", "vdc">>)>>],
           [name |-> "Current Draw", word |-> "current",
            items |-> <<number, gap, Alt(<<"ma", "a">>)>>],
           [name |-> "Temperature Range", word |-> "temperature",
            items |-> <<minus, integer, gap, Class({"c", "f"}, 0, FALSE), gap,
                        Alt(<<"to">>), gap, minus, integer, gap,
                        Class({"c", "f"}, 1, FALSE)>>],
           [name |-> "Humidity Range", word |-> "humidity",
            items |-> <<integer, Class({"%"}, 0, FALSE), gap, Alt(<<"to">>),
                        gap, integer, Alt(<<"%">>)>>],
           [name |-> "Dimensions", word |-> "dimensions",
            items |-> <<decimal, gap, Class({"x"}, 1, FALSE), gap, decimal,
                        gap, Class({"x"}, 0, FALSE), gap,
                        Class(digit \cup {"."}, 0, TRUE), gap,
                        Alt(<<"in", "mm", "cm">>)>>],
           [name |-> "Weight", word |-> "weight",
            items |-> <<decimal, gap, Alt(<<"kg", "g", "lb", "oz">>)>>],
           [name |-> "Coverage Area", word |-> "coverage",
            items |-> <<Class(digit \cup {","}, 1, TRUE), gap, Alt(<<"sq">>),
                        Class({"."}, 0, FALSE), gap, Alt(<<"ft">>)>>],
           [name |-> "Response Time", word |-> "response",
            items |-> <<decimal, gap,
                        Alt(<<"sec", "seconds", "min", "minutes">>)>>] >>

\* Where the match of the items from item i on ends that the regular
\* expression engine finds first when it starts at position p of the
\* lower-cased text: a repeated class takes as much as it can and gives
\* back as little as it must, the alternatives are tried in their order.
\* The position after the match, 0 when there is none.  match_try goes
\* through the lengths item i may take, in the order of the engine.
RECURSIVE match_end(_, _, _, _), match_try(_, _, _, _, _)
match_try(low, p, items, i, lens) ==
    IF lens = <<>> THEN 0
    ELSE LET end == match_end(low, p + Head(lens), items, i + 1)
         IN  IF end # 0 THEN end
             ELSE match_try(low, p, items, i, Tail(lens))

match_end(low, p, items, i) ==
    IF i > Len(items) THEN p
    ELSE IF items[i].alts = <<>>
    THEN LET run == RunLen(low, p, items[i].chars)
             most == IF items[i].repeats \/ run = 0 THEN run ELSE 1
         IN  match_try(low, p, items, i,
                       [k \in 1..(most - items[i].least + 1) |->
                           most - k + 1])
    ELSE LET Fits(alt) == /\ p + Len(alt) - 1 <= Len(low)
                          /\ SubSeq(low, p, p + Len(alt) - 1) = alt
             fits == SelectSeq(items[i].alts, Fits)
         IN  match_try(low, p, items, i,
                       [k \in 1..Len(fits) |-> Len(fits[k])])

\* Line 81: re.search(pattern, text, re.IGNORECASE); group 1 of the leftmost
\* match, None when there is none.
search_spec(pattern, text) ==
    LET low == Lower(text)
        start(p) == p + Len(pattern.word)
                      + RunLen(low, p + Len(pattern.word),
                               {":", " ", "\t", "\n", "\r", "\f"})
        found == {p \in 1..(Len(low) - Len(pattern.word)) :
                     /\ SubSeq(low, p, p + Len(pattern.word) - 1)
                           = pattern.word
                     /\ start(p) > p + Len(pattern.word)
                     /\ match_end(low, start(p), pattern.items, 1) # 0}
        first == CHOOSE p \in found : \A q \in found : p <= q
    IN  IF found = {} THEN None
        ELSE SubSeq(text, start(first),
                    match_end(low, start(first), pattern.items, 1) - 1)

\* Faulty variant of extract_technical_specs: the loop ends at the first
\* pattern that matches.
RECURSIVE extract_first_technical_spec(_, _)
extract_first_technical_spec(text, i) ==
    IF i > Len(tech_patterns) THEN <<>>
    ELSE LET value == search_spec(tech_patterns[i], text)
         IN  IF value # None
             THEN <<[name |-> tech_patterns[i].name, value |-> value]>>
             ELSE extract_first_technical_spec(text, i + 1)

\* Lines 65-85: the dict specs as the list of its items, in the order of
\* their insertion; i is the pattern the loop stands at.
RECURSIVE extract_technical_specs(_, _)
extract_technical_specs(text, i) ==
    IF i > Len(tech_patterns) THEN <<>>
    ELSE LET value == search_spec(tech_patterns[i], text)
         IN  (IF value # None
              THEN <<[name |-> tech_patterns[i].name, value |-> value]>>
              ELSE <<>>)
                \o extract_technical_specs(text, i + 1)

\* ', '.join(parts)
RECURSIVE Join(_)
Join(parts) ==
    IF parts = <<>> THEN ""
    ELSE IF Len(parts) = 1 THEN parts[1]
    ELSE parts[1] \o ", " \o Join(Tail(parts))

SpecRecord(cat, spec, value) ==
    ("Category" :> cat) @@ ("Specification" :> spec) @@ ("Value" :> value)

SpecColumns == <<"Category", "Specification", "Value">>

\* Faulty variant of spec_parse: the features stand before the standards.
spec_parse_features_first(doc, standards) ==
    LET text == extract_text(doc)
        tables == extract_tables(doc)
    IN  IF ~text.ok \/ ~tables.ok THEN Raised
        ELSE LET features == extract_features(text.value)
                 tech_specs == extract_technical_specs(text.value, 1)
             IN  Returned(DataFrame(SpecColumns,
                    <<SpecRecord("Product Information", "Model Number",
                                 model_number(text.value, 1)),
                      SpecRecord("Product Information", "Product Type",
                                 product_type(Lower(text.value), 1))>>
                    \o [k \in 1..Len(tech_specs) |->
                           SpecRecord("Technical Specifications",
                                      tech_specs[k].name, tech_specs[k].value)]
                    \o (IF features # <<>>
                        THEN <<SpecRecord("Features", "Key Features",
                                          Join(features))>>
                        ELSE <<>>)
                    \o (IF standards # <<>>
                        THEN <<SpecRecord("Compliance", "Standards",
                                          Join(standards))>>
                        ELSE <<>>)))

\* Faulty variant of spec_parse: a record only for what was found.
spec_parse_found_only(doc, standards) ==
    LET text == extract_text(doc)
        tables == extract_tables(doc)
    IN  IF ~text.ok \/ ~tables.ok THEN Raised
        ELSE LET features == extract_features(text.value)
                 tech_specs == extract_technical_specs(text.value, 1)
             IN  Returned(DataFrame(SpecColumns,
                    (IF model_number(text.value, 1) # ""
                     THEN <<SpecRecord("Product Information", "Model Number",
                                       model_number(text.value, 1))>>
                     ELSE <<>>)
                    \o (IF product_type(Lower(text.value), 1) # ""
                        THEN <<SpecRecord("Product Information",
                                          "Product Type",
                                          product_type(Lower(text.value), 1))>>
                        ELSE <<>>)
                    \o [k \in 1..Len(tech_specs) |->
                           SpecRecord("Technical Specifications",
                                      tech_specs[k].name, tech_specs[k].value)]
                    \o (IF standards # <<>>
                        THEN <<SpecRecord("Compliance", "Standards",
                                          Join(standards))>>
                        ELSE <<>>)
                    \o (IF features # <<>>
                        THEN <<SpecRecord("Features", "Key Features",
                                          Join(features))>>
                        ELSE <<>>)))

\* SpecSheetParser.parse, lines 126-156; standards is the list that
\* extract_standards_compliance returned.
spec_parse(doc, standards) ==
    LET text == extract_text(doc)
        tables == extract_tables(doc)
    IN  IF ~text.ok \/ ~tables.ok THEN Raised
        ELSE LET features == extract_features(text.value)
                 tech_specs == extract_technical_specs(text.value, 1)
             IN  Returned(DataFrame(SpecColumns,
                    <<SpecRecord("Product Information", "Model Number",
                                 model_number(text.value, 1)),
                      SpecRecord("Product Information", "Product Type",
                                 product_type(Lower(text.value), 1))>>
                    \o [k \in 1..Len(tech_specs) |->
                           SpecRecord("Technical Specifications",
                                      tech_specs[k].name, tech_specs[k].value)]
                    \o (IF standards # <<>>
                        THEN <<SpecRecord("Compliance", "Standards",
                                          Join(standards))>>
                        ELSE <<>>)
                    \o (IF features # <<>>
                        THEN <<SpecRecord("Features", "Key Features",
                                          Join(features))>>
                        ELSE <<>>)))

\* The lists extract_standards_compliance may return for the document's
\* text; the empty list stands in when the text cannot be extracted.
standards_of(doc) ==
    IF extract_text(doc).ok
    THEN extract_standards_compliance(extract_text(doc).value)
    ELSE {<<>>}

----------------------------------------------------------------------------
(* Python bytes and str(bytes)                                             *)

\* The printable ASCII characters, code points 32..126 in order.  A TLA+
\* string cannot hold the grave accent (code point 96): the acute accent
\* stands for it.
Printable ==
    " !\"#$%&'()*+,-./0123456789:;<=>?@ABCDEFGHIJKLMNOPQRSTUVWXYZ[\\]^_´abcdefghijklmnopqrstuvwxyz{|}~"

AsciiSpace == 32
AsciiTilde == 126
AsciiTab == 9
AsciiNewline == 10
AsciiReturn == 13
AsciiQuote == 39
AsciiDoubleQuote == 34
AsciiBackslash == 92

Chr(b) == CharAt(Printable, b - AsciiSpace + 1)
Ord(c) == CHOOSE b \in AsciiSpace..AsciiTilde : Chr(b) = c

\* The bytes of an ASCII string (str.encode()).
RECURSIVE Bytes(_)
Bytes(s) == IF s = "" THEN <<>> ELSE <<Ord(Head(s))>> \o Bytes(Tail(s))

HexDigits == "0123456789abcdef"
HexBase == 16
Hex(b) == CharAt(HexDigits, (b \div HexBase) + 1)
            \o CharAt(HexDigits, (b % HexBase) + 1)

\* bytes.__repr__ of one byte inside the literal delimited by quote.
ByteRepr(b, quote) ==
    IF b = AsciiBackslash THEN "\\\\"
    ELSE IF b = AsciiTab THEN "\\t"
    ELSE IF b = AsciiNewline THEN "\\n"
    ELSE IF b = AsciiReturn THEN "\\r"
    ELSE IF b = AsciiQuote /\ quote = "'" THEN "\\'"
    ELSE IF b >= AsciiSpace /\ b <= AsciiTilde THEN Chr(b)
    ELSE "\\x" \o Hex(b)

RECURSIVE BytesBody(_, _)
BytesBody(bs, quote) ==
    IF bs = <<>> THEN ""
    ELSE ByteRepr(Head(bs), quote) \o BytesBody(Tail(bs), quote)

HasByte(bs, b) == \E p \in 1..Len(bs) : bs[p] = b

\* str(content) for content of type bytes: the literal b'...' (b"..." when
\* the bytes hold a single quote and no double quote), never a decoding.
StrOfBytes(bs) ==
    LET quote == IF HasByte(bs, AsciiQuote) /\ ~HasByte(bs, AsciiDoubleQuote)
                 THEN "\"" ELSE "'"
    IN  "b" \o quote \o BytesBody(bs, quote) \o quote

----------------------------------------------------------------------------
(* pdf_to_excel.py: convert_pdf_to_excel, the doc_type == 'auto' block     *)

\* Lines 30-44: content is what f.read() returned, filename the basename of
\* pdf_path.
detect_doc_type(content, filename) ==
    LET content_lower == Lower(StrOfBytes(content))
        filename_lower == Lower(filename)
    IN  IF Contains(content_lower, "bill of quantities")
           \/ Contains(content_lower, "boq")
        THEN "boq"
        ELSE IF Contains(content_lower, "specification")
                \/ Contains(content_lower, "spec sheet")
        THEN "spec"
        ELSE IF Contains(filename_lower, "boq")
                \/ Contains(filename_lower, "bill")
        THEN "boq"
        ELSE IF Contains(filename_lower, "spec")
        THEN "spec"
        ELSE "boq"

----------------------------------------------------------------------------
(* test_converter.py: create_sample_boq_data                               *)

sample_boq_data ==
    [ItemNo |-> <<"1", "2", "3", "4", "5", "6", "7", "8", "9", "10">>,
     Description |-> <<
        "Addressable Photoelectric Smoke Detector, 24VDC",
        "Addressable Heat Detector, Fixed Temperature 135°F",
        "Manual Pull Station, Single Action, Red",
        "Horn/Strobe Notification Device, 24VDC, Red",
        "Fire Alarm Control Panel, 8-Zone Addressable",
        "Remote Annunciator Panel, LCD Display",
        "Duct Smoke Detector with Housing",
        "Fire Alarm Wire, 18/2 FPLR, Red",
        "Conduit and Fittings for Installation",
        "Smoke Detector Test Kit with Aerosol Spray">>,
     Quantity |-> <<50, 25, 10, 30, 1, 2, 5, 1000, 200, 2>>,
     Unit |-> <<"NOS", "NOS", "NOS", "NOS", "NOS", "NOS", "NOS", "FT", "FT",
                "NOS">>,
     Category |-> <<
        "Smoke Detectors", "Smoke Detectors", "Initiation Devices",
        "Notification Devices", "Control Panels", "Control Panels",
        "System Components", "Installation Materials",
        "Installation Materials", "Testing Equipment">>]

----------------------------------------------------------------------------
(* Descriptions the helpers are applied to                                 *)

\* Number of parts a generated description is put together from.
MaxParts == 2

\* Unit tokens and category keywords in several casings, and fillers.
Parts ==
    {"nos", "No", "PCS", "pc", "set", "meter", "m", "FT", "each", "ea",
     "Heat Detector", "FACP", "horn", "Pull Station", "wire", "test kit",
     "relay", "addressable", " ", "5", "X", "s"}

\* The descriptions of the spec's examples.
ExampleDescriptions ==
    {"50 smoke detectors", "1000 FT of FPLR wire",
     "Addressable Heat Detector", "Smoke Detector Tester"}

Descriptions ==
    {sample_boq_data.Description[i] : i \in 1..Len(sample_boq_data.Description)}
    \cup ExampleDescriptions
    \cup UNION {{categories[c].keywords[k] :
                    k \in 1..Len(categories[c].keywords)} :
                c \in 1..Len(categories)}
    \cup {Concat(ps) : ps \in UNION {[1..n -> Parts] : n \in 0..MaxParts}}

----------------------------------------------------------------------------
(* Specification SpecItem: the two helpers applied to one description      *)

\* No batch is running.
NoBatch ==
    /\ pdf_files = <<>> /\ doc_type_arg = "auto" /\ cur = 1
    /\ success_count = 0 /\ tally = <<>>
    /\ pc = "idle" /\ doc_type = "auto" /\ df = EmptyFrame /\ wb = <<>>
    /\ results = <<>> /\ saved = <<>> /\ steps = <<>> /\ decided = <<>>
    /\ handles = <<>>

InitItem ==
    /\ description \in Descriptions
    /\ page_tables = <<>>
    /\ unit = None
    /\ category = None
    /\ NoBatch

ExtractUnit ==
    /\ unit = None
    /\ unit' = extract_unit(description)
    /\ UNCHANGED <<description, page_tables, category, batchvars, callvars, histvars>>

Categorize ==
    /\ category = None
    /\ category' = categorize_smoke_detector_item(description)
    /\ UNCHANGED <<description, page_tables, unit, batchvars, callvars, histvars>>

NextItem == ExtractUnit \/ Categorize

SpecItem == InitItem /\ [][NextItem]_vars

----------------------------------------------------------------------------
(* excel_generator.py: the sheets of the workbook                          *)

\* Characters openpyxl refuses in a cell value (IllegalCharacterError); of
\* the control characters a str of the model can hold, the form feed.
IllegalCharacters == {"\f"}

IsIllegalValue(v) ==
    v # None /\ \E p \in 1..Len(v) : CharAt(v, p) \in IllegalCharacters

\* A worksheet: its title, its cells that hold a str (a formula is a str
\* that starts with "=") and its cells that hold a number, by <<row, column>>.
\* Fonts, fills, borders, widths and the cell A2, which holds the time of the
\* run, are left out.
Sheet(title) ==
    [title |-> title, strs |-> [x \in {} |-> ""], nums |-> [x \in {} |-> 0]]

\* ws.cell(row=r, column=c, value=v) for a str v; None leaves the cell empty.
cell_str(ws, r, c, v) ==
    IF v = None THEN ws ELSE [ws EXCEPT !.strs = (<<r, c>> :> v) @@ @]

\* ws.cell(row=r, column=c).value = n for a number n.
cell_num(ws, r, c, n) == [ws EXCEPT !.nums = (<<r, c>> :> n) @@ @]

\* The values written to row r from column c on.
RECURSIVE write_values(_, _, _, _)
write_values(ws, r, c, values) ==
    IF values = <<>> THEN ws
    ELSE write_values(cell_str(ws, r, c, Head(values)), r, c + 1, Tail(values))

DecimalDigits == "0123456789"

\* f'{n}' for a natural number n.
RECURSIVE FormatInt(_)
FormatInt(n) ==
    IF n < 10 THEN CharAt(DecimalDigits, n + 1)
    ELSE FormatInt(n \div 10) \o CharAt(DecimalDigits, (n % 10) + 1)

\* a < b for two str values: by code point, character by character.
RECURSIVE StrLess(_, _)
StrLess(a, b) ==
    IF b = "" THEN FALSE
    ELSE IF a = "" THEN TRUE
    ELSE IF Head(a) = Head(b) THEN StrLess(Tail(a), Tail(b))
    ELSE Ord(Head(a)) < Ord(Head(b))

\* The elements of a set of str values in ascending order.
RECURSIVE Sorted(_)
Sorted(S) ==
    IF S = {} THEN <<>>
    ELSE LET least == CHOOSE x \in S : \A y \in S : x = y \/ StrLess(x, y)
         IN  <<least>> \o Sorted(S \ {least})

\* Both sheets: header_row = 4, data_start_row = header_row + 1.
header_row == 4
data_start_row == header_row + 1

\* Faulty variant of groupby_size: one row per row of the frame.
groupby_each_row(frame) ==
    [r \in 1..Len(frame.rows) |->
        [Category |-> frame.rows[r]["Category"], Count |-> 1]]

\* boq_df.groupby('Category').size().reset_index(name='Item Count'): one row
\* per category value in ascending order with the number of rows holding it;
\* rows whose category is None or NaN are left out.
groupby_size(frame) ==
    LET keys == Sorted({frame.rows[r]["Category"] : r \in 1..Len(frame.rows)}
                          \ {None})
    IN  [k \in 1..Len(keys) |->
            [Category |-> keys[k],
             Count |-> Cardinality({r \in 1..Len(frame.rows) :
                                      frame.rows[r]["Category"] = keys[k]})]]

\* Lines 168-171: the rows of the summary.
RECURSIVE summary_rows(_, _, _)
summary_rows(ws, summary, idx) ==
    IF idx >= Len(summary) THEN ws
    ELSE LET row_num == header_row + 1 + idx
             named == cell_str(ws, row_num, 1, summary[idx + 1].Category)
         IN  summary_rows(cell_num(named, row_num, 2, summary[idx + 1].Count),
                          summary, idx + 1)

\* create_summary_sheet, lines 148-174: wb.create_sheet("Summary", 0) puts
\* the sheet before the others.
create_summary_sheet(book, frame) ==
    LET titled == cell_str(cell_str(Sheet("Summary"), 1, 1,
                               "PROJECT SUMMARY - SMOKE DETECTION SYSTEM"),
                           3, 1, "Category Breakdown")
        headed == cell_str(cell_str(titled, header_row, 1, "Category"),
                           header_row, 2, "Item Count")
    IN  Returned(<<IF InSeq("Category", frame.columns)
                   THEN summary_rows(headed, groupby_size(frame), 0)
                   ELSE titled>> \o book)

\* Faulty variant of boq_headers: the two price columns are missing.
boq_headers_unpriced ==
    <<"Item No", "Description", "Quantity", "Unit", "Category">>

boq_headers ==
    <<"Item No", "Description", "Quantity", "Unit", "Category", "Unit Price",
      "Total Price">>

\* The five cells of one row written by lines 46-50.
boq_cells(row) ==
    <<row_get(row, "Item No", ""), row_get(row, "Description", ""),
      row_get(row, "Quantity", ""), row_get(row, "Unit", "NOS"),
      row_get(row, "Category", "Other")>>

\* Faulty variant of total_formula: the quantity of the row below.
total_formula_row_below(row_num) ==
    "=C" \o FormatInt(row_num + 1) \o "*F" \o FormatInt(row_num)

\* Line 58: f'=C{row_num}*F{row_num}'
total_formula(row_num) ==
    "=C" \o FormatInt(row_num) \o "*F" \o FormatInt(row_num)

\* Line 76: f'=SUM(G{data_start_row}:G{last_data_row})'
sum_formula(first, last) ==
    "=SUM(G" \o FormatInt(first) \o ":G" \o FormatInt(last) \o ")"

\* Lines 44-59: the cells of the data rows.  The unit price is the number 0.
RECURSIVE boq_rows(_, _, _)
boq_rows(ws, rows, idx) ==
    IF idx >= Len(rows) THEN ws
    ELSE LET row_num == data_start_row + idx
             values == write_values(ws, row_num, 1, boq_cells(rows[idx + 1]))
             priced == cell_num(values, row_num, 6, 0)
         IN  boq_rows(cell_str(priced, row_num, 7, total_formula(row_num)),
                      rows, idx + 1)

\* create_boq_sheet, lines 14-87: raises when a cell value is refused.
create_boq_sheet(book, frame) ==
    LET titled == cell_str(Sheet("BOQ"), 1, 1,
                           "BILL OF QUANTITIES - SMOKE DETECTION SYSTEM")
        headed == write_values(titled, header_row, 1, boq_headers)
        filled == boq_rows(headed, frame.rows, 0)
        last_data_row == data_start_row + Len(frame.rows)
        summary_row == last_data_row + 2
        labelled == cell_str(filled, summary_row, 6, "TOTAL:")
    IN  IF \E r \in 1..Len(frame.rows) :
              \E c \in 1..Len(boq_cells(frame.rows[r])) :
                  IsIllegalValue(boq_cells(frame.rows[r])[c])
        THEN Raised
        ELSE Returned(book \o
                <<cell_str(labelled, summary_row, 7,
                           sum_formula(data_start_row, last_data_row))>>)

spec_headers == <<"Category", "Specification", "Value">>

\* The three values of one row read by lines 122-132.
spec_cells(row) ==
    <<row_get(row, "Category", ""), row_get(row, "Specification", ""),
      row_get(row, "Value", "")>>

\* Faulty variant of spec_rows: the category is written on every row.
RECURSIVE spec_rows_all_labelled(_, _, _, _)
spec_rows_all_labelled(ws, rows, idx, current_category) ==
    IF idx >= Len(rows) THEN ws
    ELSE spec_rows_all_labelled(
             write_values(ws, data_start_row + idx, 1,
                          spec_cells(rows[idx + 1])),
             rows, idx + 1, current_category)

\* Lines 120-132: the category is written on the first row of each run of
\* rows of one category, '' on the others.
RECURSIVE spec_rows(_, _, _, _)
spec_rows(ws, rows, idx, current_category) ==
    IF idx >= Len(rows) THEN ws
    ELSE LET row_num == data_start_row + idx
             cells == spec_cells(rows[idx + 1])
             first == IF cells[1] # current_category THEN cells[1] ELSE ""
         IN  spec_rows(write_values(ws, row_num, 1,
                                    <<first, cells[2], cells[3]>>),
                       rows, idx + 1, cells[1])

\* create_spec_sheet, lines 89-146.
create_spec_sheet(book, frame) ==
    LET titled == cell_str(Sheet("Specifications"), 1, 1,
                    "PRODUCT SPECIFICATIONS - SMOKE DETECTION EQUIPMENT")
        headed == write_values(titled, header_row, 1, spec_headers)
    IN  IF \E r \in 1..Len(frame.rows) :
              \E c \in 1..Len(spec_cells(frame.rows[r])) :
                  IsIllegalValue(spec_cells(frame.rows[r])[c])
        THEN Raised
        ELSE Returned(book \o <<spec_rows(headed, frame.rows, 0, None)>>)

----------------------------------------------------------------------------
(* The documents of the input directory                                    *)

Page(text, tables) == [text |-> text, tables |-> tables]

\* name: the file's basename; exists: os.path.exists; readable: open and
\* pdfplumber.open succeed; content: the file's bytes; pages: what
\* pdfplumber extracts; writable: wb.save to the document's output path
\* succeeds.
Document(name, content, pages, writable) ==
    [name |-> name, exists |-> TRUE, readable |-> TRUE, content |-> content,
     pages |-> pages, writable |-> writable]

Pool == <<
    \* 1: the body says bill of quantities, the file name says spec; text
    \*    lines, one of them no item.
    Document("spec_tender.pdf", Bytes("%PDF BILL OF QUANTITIES"),
        <<Page("1 Smoke Detector 50\nSite notes\n2.1 FPLR wire 1000 FT",
               <<>>),
          Page("3 Horn nos 4", <<>>)>>, TRUE),
    \* 2: the body says specification, the file name says boq.
    Document("boq_attachment.pdf", Bytes("Product Specification"),
        <<Page("Model: SD-2400A\nAddressable photoelectric smoke detector, not wireless",
               <<>>)>>, TRUE),
    \* 3: the body says both; a table with an empty Unit cell.
    Document("offer.pdf", Bytes("specification of the BOQ"),
        <<Page("Item No Description Quantity Unit",
               << << <<"Item No", "Description", "Quantity", "Unit">>,
                     <<"1", "Heat Detector", "25", "NOS">>,
                     <<"2", "Conduit", "200", None>> >> >>)>>, TRUE),
    \* 4: nothing in the body, bill in the file name; no text, no table.
    Document("bill.pdf", Bytes("%PDF-1.4"), <<Page("", <<>>)>>, TRUE),
    \* 5: the bytes ESC (27) o q in the body, spec in the file name.
    Document("spec.pdf", <<27>> \o Bytes("oq"),
        <<Page("SKU: X1 Part# AB-9\nHeat detector with LED indicator\nUL 268, EN 54",
               <<>>)>>, TRUE),
    \* 6: nothing in the body or the file name; a table without Unit column
    \*    and a second table with other columns.
    Document("site.pdf", Bytes("%PDF-1.7"),
        <<Page("No Item Qty",
               << << <<"No", "Item", "Qty">>, <<"1", "Strobe", "4">> >>,
                  << <<"No", "Item", "Unit">>, <<"2", "Relay", "SET">>
                  >> >>)>>, TRUE),
    \* 7: a path that does not exist (a dangling link named *.pdf).
    [name |-> "missing.pdf", exists |-> FALSE, readable |-> FALSE,
     content |-> <<>>, pages |-> <<>>, writable |-> TRUE],
    \* 8: a path that exists and cannot be opened for reading.
    [name |-> "locked.pdf", exists |-> TRUE, readable |-> FALSE,
     content |-> <<>>, pages |-> <<>>, writable |-> TRUE],
    \* 9: a page without text.
    Document("scan.pdf", Bytes("%PDF"), <<Page(None, <<>>)>>, TRUE),
    \* 10: spec in the file name only; the output cannot be written.
    Document("spec_panel.pdf", Bytes("%PDF"),
        <<Page("Control panel, addressable\n1 Battery 2", <<>>)>>, FALSE),
    \* 11: a table with an empty description cell.
    Document("list.pdf", Bytes("%PDF"),
        <<Page("", << << <<"Item No", "Description">>, <<"1", None>> >> >>)>>,
        TRUE),
    \* 12: a form feed inside a description.
    Document("feed.pdf", Bytes("%PDF"),
        <<Page("1 Relay\fmodule 3", <<>>)>>, TRUE) >>

\* Number of documents in the input directory.
MaxFiles == 2

\* The sequences of up to MaxFiles different documents.
FileLists ==
    {fs \in UNION {[1..n -> 1..Len(Pool)] : n \in 0..MaxFiles} :
        \A i, j \in 1..Len(fs) : i # j => fs[i] # fs[j]}

DocTypes == {"boq", "spec", "auto"}

\* The document the for loop stands at.
Doc == Pool[pdf_files[cur]]

----------------------------------------------------------------------------
(* pdf_to_excel.py: batch_convert and convert_pdf_to_excel                 *)

\* The opening or the closing of a read handle on the file at position
\* file of the batch, for the detection, the text or the tables.
HandleEvent(op, file, use) == [op |-> op, file |-> file, use |-> use]

\* Faulty variant of with_handle: the handle stays open when the body raises.
with_handle_leaking(file, use, opens, body_ok) ==
    IF ~opens THEN <<>>
    ELSE IF body_ok
    THEN <<HandleEvent("open", file, use), HandleEvent("close", file, use)>>
    ELSE <<HandleEvent("open", file, use)>>

\* with open(...) as f: / with pdfplumber.open(...) as pdf: no handle when
\* the opening raises; else the handle is closed when the body is left,
\* by its end or by an exception.
with_handle(file, use, opens, body_ok) ==
    IF ~opens THEN <<>>
    ELSE <<HandleEvent("open", file, use), HandleEvent("close", file, use)>>

\* pdf_to_excel.py lines 29-44: the body of the with statement raises
\* nothing.
detect_handles(doc, file) == with_handle(file, "detect", doc.readable, TRUE)

\* parse() of both parsers: extract_text, then extract_tables when
\* extract_text returned.
parse_handles(doc, file) ==
    LET text == extract_text(doc)
    IN  with_handle(file, "text", doc.readable, text.ok)
        \o (IF text.ok
            THEN with_handle(file, "tables", doc.readable,
                             extract_tables(doc).ok)
            ELSE <<>>)

\* No description is being classified.
NoItem == description = "" /\ page_tables = <<>> /\ unit = None /\ category = None

\* batch_convert is entered with the files glob found.
Init ==
    /\ NoItem
    /\ pdf_files \in FileLists
    /\ doc_type_arg \in DocTypes
    /\ cur = 1
    /\ success_count = 0
    /\ tally = <<>>
    /\ pc = "glob"
    /\ doc_type = doc_type_arg
    /\ df = EmptyFrame
    /\ wb = <<>>
    /\ results = <<>>
    /\ saved = <<>>
    /\ steps = [i \in 1..Len(pdf_files) |-> <<>>]
    /\ decided = [i \in 1..Len(pdf_files) |-> <<>>]
    /\ handles = <<>>

\* The step name is added to the steps of the current document.
Step(name) == steps' = [steps EXCEPT ![cur] = Append(@, name)]

\* convert_pdf_to_excel returns v to the for loop of batch_convert (lines
\* 115-116); its locals are gone.
Return(v) ==
    /\ results' = Append(results, v)
    /\ success_count' = IF v THEN success_count + 1 ELSE success_count
    /\ cur' = cur + 1
    /\ pc' = IF cur + 1 > Len(pdf_files) THEN "tally" ELSE "exists"
    /\ doc_type' = doc_type_arg
    /\ df' = EmptyFrame
    /\ wb' = <<>>

\* Lines 101-109: no file found ends the batch without a tally.
BatchStart ==
    /\ pc = "glob"
    /\ pc' = IF pdf_files = <<>> THEN "done" ELSE "exists"
    /\ UNCHANGED <<itemvars, batchvars, doc_type, df, wb, histvars>>

\* Faulty variant of CheckExists: the path is not tested.
CheckExistsSkipped ==
    /\ pc = "exists"
    /\ pc' = "detect"
    /\ UNCHANGED <<itemvars, batchvars, doc_type, df, wb, histvars>>

\* Lines 22-26.
CheckExists ==
    /\ pc = "exists"
    /\ IF ~Doc.exists
       THEN /\ Return(FALSE)
            /\ UNCHANGED <<saved, steps, decided, handles>>
       ELSE /\ pc' = "detect"
            /\ UNCHANGED <<cur, success_count, doc_type, df, wb, histvars>>
    /\ UNCHANGED <<itemvars, pdf_files, doc_type_arg, tally>>

\* Faulty variant of DetectType: the classifier runs whatever type is given.
DetectTypeAlways ==
    /\ pc = "detect"
    /\ Step("detect")
    /\ IF ~Doc.readable
       THEN /\ pc' = "raised"
            /\ UNCHANGED <<doc_type, decided>>
            /\ handles' = handles \o detect_handles(Doc, cur)
       ELSE /\ pc' = "parse"
            /\ doc_type' = detect_doc_type(Doc.content, Doc.name)
            /\ decided' = [decided EXCEPT ![cur] = Append(@, doc_type')]
            /\ handles' = handles \o detect_handles(Doc, cur)
    /\ UNCHANGED <<itemvars, batchvars, df, wb, results, saved>>

\* Lines 28-46.  open() stands outside the try block: when it raises, the
\* exception leaves convert_pdf_to_excel and batch_convert.
DetectType ==
    /\ pc = "detect"
    /\ IF doc_type = "auto"
       THEN /\ Step("detect")
            /\ IF ~Doc.readable
               THEN /\ pc' = "raised"
                    /\ UNCHANGED <<doc_type, decided>>
                    /\ handles' = handles \o detect_handles(Doc, cur)
               ELSE /\ pc' = "parse"
                    /\ doc_type' = detect_doc_type(Doc.content, Doc.name)
                    /\ decided' = [decided EXCEPT ![cur] = Append(@, doc_type')]
                    /\ handles' = handles \o detect_handles(Doc, cur)
       ELSE /\ pc' = "parse"
            /\ UNCHANGED <<doc_type, steps, decided, handles>>
    /\ UNCHANGED <<itemvars, batchvars, df, wb, results, saved>>

\* Faulty variant of ParseBOQ: an empty frame is handed on to the sheets.
ParseBOQKeepsEmpty ==
    /\ pc = "parse"
    /\ doc_type = "boq"
    /\ Step("parse_boq")
    /\ handles' = handles \o parse_handles(Doc, cur)
    /\ LET parsed == boq_parse(Doc)
       IN  IF ~parsed.ok
           THEN Return(FALSE)
           ELSE /\ df' = parsed.value
                /\ pc' = "sheets"
                /\ UNCHANGED <<cur, success_count, doc_type, wb, results>>
    /\ UNCHANGED <<itemvars, pdf_files, doc_type_arg, tally, saved, decided>>

\* Lines 48-59: the parser's exception is caught by line 80.
ParseBOQ ==
    /\ pc = "parse"
    /\ doc_type = "boq"
    /\ Step("parse_boq")
    /\ handles' = handles \o parse_handles(Doc, cur)
    /\ LET parsed == boq_parse(Doc)
       IN  IF ~parsed.ok \/ IsEmptyFrame(parsed.value)
           THEN Return(FALSE)
           ELSE /\ df' = parsed.value
                /\ pc' = "sheets"
                /\ UNCHANGED <<cur, success_count, doc_type, wb, results>>
    /\ UNCHANGED <<itemvars, pdf_files, doc_type_arg, tally, saved, decided>>

\* Lines 48-50, 64-72.
ParseSpec ==
    /\ pc = "parse"
    /\ doc_type = "spec"
    /\ Step("parse_spec")
    /\ handles' = handles \o parse_handles(Doc, cur)
    /\ \E standards \in standards_of(Doc) :
       LET parsed == spec_parse(Doc, standards)
       IN  IF ~parsed.ok \/ IsEmptyFrame(parsed.value)
           THEN Return(FALSE)
           ELSE /\ df' = parsed.value
                /\ pc' = "sheets"
                /\ UNCHANGED <<cur, success_count, doc_type, wb, results>>
    /\ UNCHANGED <<itemvars, pdf_files, doc_type_arg, tally, saved, decided>>

\* Lines 61-62.
CreateBOQSheets ==
    /\ pc = "sheets"
    /\ doc_type = "boq"
    /\ Step("sheets_boq")
    /\ UNCHANGED handles
    /\ LET summary == create_summary_sheet(wb, df)
           boq == create_boq_sheet(summary.value, df)
       IN  IF ~boq.ok
           THEN Return(FALSE)
           ELSE /\ wb' = boq.value
                /\ pc' = "save"
                /\ UNCHANGED <<cur, success_count, doc_type, df, results>>
    /\ UNCHANGED <<itemvars, pdf_files, doc_type_arg, tally, saved, decided>>

\* Line 74.
CreateSpecSheet ==
    /\ pc = "sheets"
    /\ doc_type = "spec"
    /\ Step("sheets_spec")
    /\ UNCHANGED handles
    /\ LET sheet == create_spec_sheet(wb, df)
       IN  IF ~sheet.ok
           THEN Return(FALSE)
           ELSE /\ wb' = sheet.value
                /\ pc' = "save"
                /\ UNCHANGED <<cur, success_count, doc_type, df, results>>
    /\ UNCHANGED <<itemvars, pdf_files, doc_type_arg, tally, saved, decided>>

\* Faulty variant of Save: True is returned although wb.save raised.
SaveAlwaysTrue ==
    /\ pc = "save"
    /\ Step("save")
    /\ UNCHANGED handles
    /\ saved' = IF Doc.writable
                THEN Append(saved, [file |-> cur, sheets |-> wb])
                ELSE saved
    /\ Return(TRUE)
    /\ UNCHANGED <<itemvars, pdf_files, doc_type_arg, tally, decided>>

\* Lines 76-78, and 80-84 when wb.save raises.
Save ==
    /\ pc = "save"
    /\ Step("save")
    /\ UNCHANGED handles
    /\ IF Doc.writable
       THEN /\ saved' = Append(saved, [file |-> cur, sheets |-> wb])
            /\ Return(TRUE)
       ELSE /\ Return(FALSE)
            /\ UNCHANGED saved
    /\ UNCHANGED <<itemvars, pdf_files, doc_type_arg, tally, decided>>

\* Lines 118-119.
PrintTally ==
    /\ pc = "tally"
    /\ tally' = Append(tally, success_count)
    /\ pc' = "done"
    /\ UNCHANGED <<itemvars, pdf_files, doc_type_arg, cur, success_count,
                   doc_type, df, wb, histvars>>

Next ==
    \/ BatchStart
    \/ CheckExists
    \/ DetectType
    \/ ParseBOQ
    \/ ParseSpec
    \/ CreateBOQSheets
    \/ CreateSpecSheet
    \/ Save
    \/ PrintTally

Spec == Init /\ [][Next]_vars

----------------------------------------------------------------------------
(* The saved BOQ sheet as a spreadsheet program evaluates it.  Numbers are *)
(* held in hundredths: 250 is 2.50.                                        *)

DigitValue(c) == CHOOSE d \in 0..9 : CharAt(DecimalDigits, d + 1) = c

\* The natural number a str of digits denotes.
RECURSIVE ParseNat(_)
ParseNat(s) ==
    IF s = "" THEN 0
    ELSE ParseNat(SubSeq(s, 1, Len(s) - 1)) * 10 + DigitValue(CharAt(s, Len(s)))

\* The number a text cell stands for in arithmetic, in hundredths; text that
\* is no number gives #VALUE!.  Digits after the second decimal are dropped.
TextNumber(s) ==
    LET n == DigitsRun(s, 1)
        frac == SubSeq(s, n + 2, Len(s))
    IN  IF ~IsQuantity(s) THEN Raised
        ELSE Returned(ParseNat(SubSeq(s, 1, n)) * 100
                + (IF frac = "" THEN 0
                   ELSE IF Len(frac) = 1 THEN ParseNat(frac) * 10
                   ELSE ParseNat(SubSeq(frac, 1, 2))))

ColumnLetters == "ABCDEFG"
IsColumnLetter(c) == \E k \in 1..Len(ColumnLetters) : CharAt(ColumnLetters, k) = c
ColumnOf(c) == CHOOSE k \in 1..Len(ColumnLetters) : CharAt(ColumnLetters, k) = c

\* The reference (a column letter and a row number) at position p of s.
cell_ref(s, p) ==
    LET n == DigitsRun(s, p + 1)
    IN  IF IsColumnLetter(CharAt(s, p)) /\ n > 0
        THEN [ok |-> TRUE, len |-> n + 1,
              at |-> <<ParseNat(SubSeq(s, p + 1, p + n)), ColumnOf(CharAt(s, p))>>]
        ELSE [ok |-> FALSE, len |-> 0, at |-> <<0, 0>>]

IsFormula(ws, x) ==
    x \in DOMAIN ws.strs /\ ws.strs[x] # "" /\ Head(ws.strs[x]) = "="

RECURSIVE cell_value(_, _)
RECURSIVE operand(_, _)
RECURSIVE sum_range(_, _, _, _)

\* The value of cell x as an operand of * : an empty cell counts 0, a text
\* cell the number it spells.
operand(ws, x) ==
    IF x \in DOMAIN ws.nums THEN Returned(ws.nums[x])
    ELSE IF x \notin DOMAIN ws.strs \/ ws.strs[x] = "" THEN Returned(0)
    ELSE IF IsFormula(ws, x) THEN cell_value(ws, x)
    ELSE TextNumber(ws.strs[x])

\* SUM over rows r..last of column c: numbers and formula results are
\* added, text and empty cells are passed over, an error makes the sum one.
sum_range(ws, c, r, last) ==
    IF r > last THEN Returned(0)
    ELSE LET rest == sum_range(ws, c, r + 1, last)
             this == IF <<r, c>> \in DOMAIN ws.nums
                     THEN Returned(ws.nums[<<r, c>>])
                     ELSE IF IsFormula(ws, <<r, c>>)
                     THEN cell_value(ws, <<r, c>>)
                     ELSE Returned(0)
         IN  IF ~this.ok \/ ~rest.ok THEN Raised
             ELSE Returned(this.value + rest.value)

\* The value of the formula in cell x: =<ref>*<ref> or =SUM(<ref>:<ref>).
cell_value(ws, x) ==
    LET f == ws.strs[x]
    IN  IF SubSeq(f, 1, 5) = "=SUM("
        THEN LET a == cell_ref(f, 6)
                 b == cell_ref(f, 6 + a.len + 1)
             IN  IF a.ok /\ b.ok /\ CharAt(f, 6 + a.len) = ":"
                    /\ SubSeq(f, 7 + a.len + b.len, Len(f)) = ")"
                    /\ a.at[2] = b.at[2]
                 THEN sum_range(ws, a.at[2], a.at[1], b.at[1])
                 ELSE Raised
        ELSE LET a == cell_ref(f, 2)
                 b == cell_ref(f, 2 + a.len + 1)
             IN  IF a.ok /\ b.ok /\ CharAt(f, 2 + a.len) = "*"
                    /\ 2 + a.len + b.len = Len(f)
                 THEN LET l == operand(ws, a.at)
                          r == operand(ws, b.at)
                      IN  IF ~l.ok \/ ~r.ok THEN Raised
                          ELSE Returned((l.value * r.value) \div 100)
                 ELSE Raised

----------------------------------------------------------------------------
(* Specification SpecSheet: a BOQ frame parsed from text is rendered and   *)
(* saved, and unit prices of the saved sheet are then edited               *)

\* Number of text lines of the document.
MaxRows == 2

ItemLines ==
    {"1 Smoke Detector 4", "2 Horn 10", "3 Conduit", "1.2 Cable 2.5"}

\* The unit prices typed in, in hundredths.
Prices == {0, 100, 250}

RECURSIVE JoinLines(_)
JoinLines(lines) ==
    IF lines = <<>> THEN "" ELSE Head(lines) \o "\n" \o JoinLines(Tail(lines))

SheetFrames ==
    {FrameOfItems(parse_boq_structure(JoinLines(ls))) :
        ls \in UNION {[1..n -> ItemLines] : n \in 1..MaxRows}}

\* test_converter.py lines 48-78: create_sample_spec_data.
sample_spec_data ==
    DataFrame(SpecColumns,
      <<SpecRecord("Product Information", "Model Number", "SD-2400A"),
        SpecRecord("Product Information", "Product Type",
                   "Addressable Photoelectric Smoke Detector"),
        SpecRecord("Technical Specifications", "Operating Voltage", "24 VDC"),
        SpecRecord("Technical Specifications", "Current Draw",
                   "45 mA standby, 85 mA alarm"),
        SpecRecord("Technical Specifications", "Temperature Range",
                   "-4°F to 158°F (-20°C to 70°C)"),
        SpecRecord("Technical Specifications", "Humidity Range",
                   "10% to 93% RH non-condensing"),
        SpecRecord("Technical Specifications", "Dimensions",
                   "4.1\" diameter x 2.1\" height"),
        SpecRecord("Compliance", "Standards",
                   "UL 268, NFPA 72, FM Approved, CE Certified"),
        SpecRecord("Features", "Key Features",
                   "Addressable, Photoelectric, LED Indicator, Test Button, Drift Compensation"),
        SpecRecord("Features", "Detection Technology",
                   "Photoelectric smoke sensing with advanced algorithms")>>)

\* Frames of records as create_spec_sheet receives them: the fixture, and
\* up to MaxRows + 1 records of any categories, the k-th record named by k.
SpecFrames ==
    {sample_spec_data} \cup
    {DataFrame(SpecColumns,
        [k \in 1..Len(cats) |->
            SpecRecord(cats[k], "Field " \o FormatInt(k), "Value")]) :
        cats \in UNION {[1..n -> {"Product Information", "Compliance",
                                  "Features"}] : n \in 1..(MaxRows + 1)}}

\* The position of the sheet with the title in the workbook, 0 without one.
SheetIndex(book, title) ==
    IF \E k \in 1..Len(book) : book[k].title = title
    THEN CHOOSE k \in 1..Len(book) : book[k].title = title
    ELSE 0

InitSheet ==
    /\ NoItem
    /\ pdf_files = <<>> /\ doc_type_arg \in {"boq", "spec"} /\ cur = 1
    /\ success_count = 0 /\ tally = <<>>
    /\ pc = "sheets" /\ doc_type = doc_type_arg
    /\ df \in IF doc_type = "boq" THEN SheetFrames ELSE SpecFrames
    /\ wb = <<>>
    /\ results = <<>> /\ saved = <<>> /\ steps = <<>> /\ decided = <<>>
    /\ handles = <<>>

\* pdf_to_excel.py lines 61-62 and 76-78 for a file that can be written.
RenderBOQ ==
    /\ pc = "sheets"
    /\ doc_type = "boq"
    /\ LET summary == create_summary_sheet(wb, df)
           boq == create_boq_sheet(summary.value, df)
       IN  /\ boq.ok
           /\ wb' = boq.value
           /\ saved' = Append(saved, [file |-> cur, sheets |-> boq.value])
           /\ results' = Append(results, TRUE)
    /\ pc' = "done"
    /\ UNCHANGED <<itemvars, batchvars, doc_type, df, steps, decided, handles>>

\* The user types a unit price into column F of a data row of the sheet.
EditUnitPrice ==
    /\ pc = "done"
    /\ doc_type = "boq"
    /\ \E idx \in 0..(Len(df.rows) - 1), price \in Prices :
          LET k == SheetIndex(wb, "BOQ")
          IN  wb' = [wb EXCEPT ![k] = cell_num(@, data_start_row + idx, 6, price)]
    /\ UNCHANGED <<itemvars, batchvars, pc, doc_type, df, histvars>>

\* pdf_to_excel.py lines 74 and 76-78 for a file that can be written.
RenderSpec ==
    /\ pc = "sheets"
    /\ doc_type = "spec"
    /\ LET sheet == create_spec_sheet(wb, df)
       IN  /\ sheet.ok
           /\ wb' = sheet.value
           /\ saved' = Append(saved, [file |-> cur, sheets |-> sheet.value])
           /\ results' = Append(results, TRUE)
    /\ pc' = "done"
    /\ UNCHANGED <<itemvars, batchvars, doc_type, df, steps, decided, handles>>

NextSheet == RenderBOQ \/ EditUnitPrice \/ RenderSpec

SpecSheet == InitSheet /\ [][NextSheet]_vars

----------------------------------------------------------------------------
(* Specification SpecText: the two parsers applied to the text of a        *)
(* document without tables                                                 *)

\* Number of parts of the text.
MaxTokens == 2

TextParts ==
    {"UL 268", "ul 268", "Ul268a", "NFPA 72", "fm  approved", "EN 54",
     "Model: SD-2400A", "model range", "SKU: X1", "Part# AB-9",
     "1 Smoke Detector 4", "2.1 FPLR wire 1000 FT", "Site notes",
     " 3 Horn nos 4 ", "7", "12 m"}

Separators == {", ", "\n"}

ExampleTexts ==
    {"UL 268, NFPA 72, FM Approved", "ul 268, nfpa 72, fm approved",
     "UL 268, NFPA 72, FM APPROVED", "Ul 268, nFPA 72, fM aPPROVED",
     "SKU: X1 Part: P-7 Model: SD-2400A",
     "1 Smoke Detector 4\nSite notes\n\n2 Horn 10\n3 Conduit",
     "1.2 Cable 2.5\n12 Horn 24V  10\n3. 2 x 1.5 mm\n4\tRelay 1,000",
     "Model: X1 horn\nVoltage: 24 VDC\nWeight: 1 kg\nUL 268\nnot wireless"}

RECURSIVE JoinWith(_, _)
JoinWith(parts, sep) ==
    IF Len(parts) = 1 THEN parts[1]
    ELSE parts[1] \o sep \o JoinWith(Tail(parts), sep)

\* Number of lines of a text about technical data.
MaxFields == 2

\* Lines of a data sheet: lines that one of the patterns of
\* extract_technical_specs matches, lines that none matches, and lines with
\* and without feature keywords.
TechParts ==
    {"Voltage: 24 VDC", "Current: 45 mA", "Temperature: -10 to 50 C",
     "Humidity: 10% to 93%", "Dimensions: 4.5 x 4.5 x 2 in", "Weight: 1.5 kg",
     "Coverage: 900 sq ft", "Response: 30 seconds", "Voltage: high",
     "Current weight 5 g", "RESPONSE  2.5MIN",
     "not wireless", "Addressable, LED indicators", "heat  detection"}

\* Up to MaxFields different lines, in any order.
TechTexts ==
    {JoinWith(ps, "\n") :
        ps \in {qs \in UNION {[1..n -> TechParts] : n \in 1..MaxFields} :
                  \A i, j \in 1..Len(qs) : i # j => qs[i] # qs[j]}}

Texts ==
    ExampleTexts \cup TechTexts \cup
    {JoinWith(ps, sep) :
        ps \in UNION {[1..n -> TextParts] : n \in 1..MaxTokens},
        sep \in Separators}

\* A readable document of one page with the text and no table.
TextDocument(text) ==
    Document("document.pdf", <<>>, <<Page(text, <<>>)>>, TRUE)

InitText ==
    /\ description \in Texts
    /\ page_tables = <<>>
    /\ unit = None /\ category = None
    /\ pdf_files = <<>> /\ doc_type_arg \in {"boq", "spec"} /\ cur = 1
    /\ success_count = 0 /\ tally = <<>>
    /\ pc = "parse" /\ doc_type = doc_type_arg
    /\ df = EmptyFrame
    /\ wb = <<>>
    /\ results = <<>> /\ saved = <<>> /\ steps = <<>> /\ decided = <<>>
    /\ handles = <<>>

\* pdf_to_excel.py lines 52-53.
ParseBOQText ==
    /\ pc = "parse"
    /\ doc_type = "boq"
    /\ df' = boq_parse(TextDocument(description)).value
    /\ pc' = "done"
    /\ UNCHANGED <<itemvars, batchvars, doc_type, wb, histvars>>

\* pdf_to_excel.py lines 65-66.
ParseSpecText ==
    /\ pc = "parse"
    /\ doc_type = "spec"
    /\ \E standards \in standards_of(TextDocument(description)) :
          df' = spec_parse(TextDocument(description), standards).value
    /\ pc' = "done"
    /\ UNCHANGED <<itemvars, batchvars, doc_type, wb, histvars>>

NextText == ParseBOQText \/ ParseSpecText

SpecText == InitText /\ [][NextText]_vars

----------------------------------------------------------------------------
(* Specification SpecTables: BOQParser.parse applied to a document of one  *)
(* page with text and tables                                               *)

\* Number of tables of the page.
MaxTables == 2

\* Tables as page.extract_tables() returns them: rows of cells, the first
\* row the header; an empty table; a table of the header alone.
PageTables ==
    { << <<"No", "Item", "Qty">>, <<"1", "Strobe", "4">> >>,
      << <<"No", "Item", "Qty">>, <<"2", "Smoke Detector", "10">>,
         <<"3", "Relay", "1">> >>,
      << <<"No", "Item", "Unit">>, <<"4", "Cable", "M">> >>,
      << <<"Item No", "Description", "Quantity">>,
         <<"1", "Heat Detector", "25">> >>,
      << <<"No", "Item", "Qty">> >>,
      <<>> }

PageTexts == {"", "Fire alarm system", "1 Heat Detector 25\n2 Conduit 200"}

\* A readable document of one page with the text and the tables.
PageDocument(text, found) ==
    Document("document.pdf", <<>>, <<Page(text, found)>>, TRUE)

InitTables ==
    /\ description \in PageTexts
    /\ page_tables \in UNION {[1..n -> PageTables] : n \in 0..MaxTables}
    /\ unit = None /\ category = None
    /\ pdf_files = <<>> /\ doc_type_arg = "boq" /\ cur = 1
    /\ success_count = 0 /\ tally = <<>>
    /\ pc = "parse" /\ doc_type = "boq"
    /\ df = EmptyFrame
    /\ wb = <<>>
    /\ results = <<>> /\ saved = <<>> /\ steps = <<>> /\ decided = <<>>
    /\ handles = <<>>

\* pdf_to_excel.py lines 52-53; an exception of parse() is caught at line 80
\* and the conversion returns False.
ParsePage ==
    /\ pc = "parse"
    /\ LET parsed == boq_parse(PageDocument(description, page_tables))
       IN  IF parsed.ok
           THEN /\ df' = parsed.value
                /\ results' = Append(results, TRUE)
           ELSE /\ df' = df
                /\ results' = Append(results, FALSE)
    /\ pc' = "done"
    /\ UNCHANGED <<itemvars, batchvars, doc_type, wb, saved, steps, decided,
                   handles>>

NextTables == ParsePage

SpecTables == InitTables /\ [][NextTables]_vars

----------------------------------------------------------------------------
(* Properties of the two helpers (SpecItem)                                *)

\* Two characters are the same letter, whatever their case.
SameLetter(a, b) ==
    \/ a = b
    \/ a \in DOMAIN LowerOf /\ LowerOf[a] = b
    \/ b \in DOMAIN LowerOf /\ LowerOf[b] = a

\* kw occurs in s as a case-insensitive substring.
OccursIgnoringCase(s, kw) ==
    \E p \in 1..(Len(s) - Len(kw) + 1) :
        \A q \in 1..Len(kw) : SameLetter(CharAt(s, p + q - 1), CharAt(kw, q))

Min(S) == CHOOSE x \in S : \A y \in S : x <= y

\* The positions of the categories that have a keyword in d.
MatchingCategories(d) ==
    {k \in 1..Len(categories) :
        \E j \in 1..Len(categories[k].keywords) :
            OccursIgnoringCase(d, categories[k].keywords[j])}

\* The unit codes, by position of their token in the list.
UnitCodes == <<"NOS", "NO", "PCS", "PC", "SET", "METER", "M", "FT", "EACH", "EA">>

\* The positions of the unit tokens that occur in d.
OccurringUnits(d) ==
    {i \in 1..Len(units) : OccursIgnoringCase(d, units[i])}

\* C1: the classifier gives each description of the ten-item sample BOQ
\* fixture the category the fixture lists for it.
Claim_C1_FixtureCategories ==
    \A i \in 1..Len(sample_boq_data.Description) :
        (description = sample_boq_data.Description[i] /\ category # None)
            => category = sample_boq_data.Category[i]

\* C2: the classifier returns the first category, in table order, that has a
\* keyword occurring as a case-insensitive substring of the description, and
\* "Other" when no category has one.
Thm_C2_FirstMatchingCategory ==
    category # None =>
        IF MatchingCategories(description) = {}
        THEN category = "Other"
        ELSE category = categories[Min(MatchingCategories(description))].name

\* A description with keywords of the first and of the last category has been
\* classified as the first.
Wit_C2_HeatDetectorBeforeAddressable ==
    /\ description = "Addressable Heat Detector"
    /\ MatchingCategories(description) = {1, Len(categories)}
    /\ category = "Smoke Detectors"

\* C3: "50 smoke detectors" gets the default unit NOS.
Claim_C3_SmokeDetectorsDefaultUnit ==
    (description = "50 smoke detectors" /\ unit # None) => unit = "NOS"

\* C4: the unit is the code of the first token of the list that occurs in the
\* lower-cased description, NOS when none occurs; a token that is a substring
\* of another token stands after it in the list and is returned only when the
\* longer token does not occur.
Thm_C4_FirstUnitToken ==
    unit # None =>
        /\ IF OccurringUnits(description) = {}
           THEN unit = "NOS"
           ELSE unit = UnitCodes[Min(OccurringUnits(description))]
        /\ \A i, j \in 1..Len(units) :
              (i # j /\ Contains(units[j], units[i])) =>
                  /\ j < i
                  /\ unit = UnitCodes[i] => j \notin OccurringUnits(description)

\* A description with the token "no" and without "nos" has got the unit NO.
Wit_C4_ShorterTokenReturned ==
    /\ description = "No5"
    /\ OccurringUnits(description) = {2}
    /\ unit = "NO"

----------------------------------------------------------------------------
(* Properties of the conversion (Spec)                                     *)

\* The document at position i of the batch.
DocAt(i) == Pool[pdf_files[i]]

\* The bytes hold the phrase, whatever the case of their letters.
BytesHold(content, phrase) ==
    \E p \in 1..(Len(content) - Len(phrase) + 1) :
        \A q \in 1..Len(phrase) :
            /\ content[p + q - 1] \in AsciiSpace..AsciiTilde
            /\ SameLetter(Chr(content[p + q - 1]), CharAt(phrase, q))

ContentSaysBOQ(content) ==
    BytesHold(content, "bill of quantities") \/ BytesHold(content, "boq")
ContentSaysSpec(content) ==
    BytesHold(content, "specification") \/ BytesHold(content, "spec sheet")
NameSaysBOQ(name) ==
    OccursIgnoringCase(name, "boq") \/ OccursIgnoringCase(name, "bill")
NameSaysSpec(name) == OccursIgnoringCase(name, "spec")

\* The type the ordered rules 1 to 4 give.
RuleType(content, name) ==
    IF ContentSaysBOQ(content) THEN "boq"
    ELSE IF ContentSaysSpec(content) THEN "spec"
    ELSE IF NameSaysBOQ(name) THEN "boq"
    ELSE IF NameSaysSpec(name) THEN "spec"
    ELSE "boq"

\* No element occurs twice in the sequence.
NoRepeat(seq) == \A i, j \in 1..Len(seq) : i # j => seq[i] # seq[j]

\* The number of TRUE entries of a sequence of booleans.
Successes(rs) == Cardinality({i \in 1..Len(rs) : rs[i]})

\* The row has a value other than None and NaN under the label.
Populated(row, label) == label \in DOMAIN row /\ row[label] # None

\* C5: in auto mode the type is the one the ordered rules give: content
\* holding 'bill of quantities' or 'boq', else content holding
\* 'specification' or 'spec sheet', else the file name, else BOQ.
Claim_C5_ContentPriority ==
    \A i \in 1..Len(pdf_files) :
        decided[i] # <<>> =>
            decided[i][1] = RuleType(DocAt(i).content, DocAt(i).name)

\* C6: every line item BOQParser.parse produces, from tables as well as from
\* text, has a category and a unit that are not null.
Claim_C6_UnitAndCategoryPopulated ==
    (pc \in {"sheets", "save"} /\ doc_type = "boq") =>
        \A r \in 1..Len(df.rows) :
            Populated(df.rows[r], "Category") /\ Populated(df.rows[r], "Unit")

\* C7: no failure of a step of the conversion of an existing file leaves
\* convert_pdf_to_excel as an exception, and no step is run twice.
Claim_C7_FailuresCaught ==
    /\ pc # "raised"
    /\ \A i \in 1..Len(pdf_files) : NoRepeat(steps[i])

\* C8: the auto detection never raises: once it has run on a document it has
\* assigned exactly one type, BOQ or SPEC, and BOQ when no rule matches.
Claim_C8_DetectionAlwaysResolves ==
    \A i \in 1..Len(pdf_files) :
        InSeq("detect", steps[i]) =>
            /\ Len(decided[i]) = 1
            /\ decided[i][1] \in {"boq", "spec"}
            /\ (~ContentSaysBOQ(DocAt(i).content)
                /\ ~ContentSaysSpec(DocAt(i).content)
                /\ ~NameSaysBOQ(DocAt(i).name)
                /\ ~NameSaysSpec(DocAt(i).name)) => decided[i][1] = "boq"

\* C9: when the batch has ended every file found has been converted exactly
\* once, in order, and the tally printed is the number of conversions that
\* returned True, between 0 and the number of files.
Claim_C9_BatchConvertsEveryFile ==
    /\ Len(results) <= Len(pdf_files)
    /\ (pc \in {"done", "raised"} /\ pdf_files # <<>>) =>
          /\ Len(results) = Len(pdf_files)
          /\ tally = <<Successes(results)>>
          /\ tally[1] \in 0..Len(pdf_files)

\* C10: for an input path that does not exist the conversion returns False
\* and raises nothing, and no detection, parsing, sheet creation or save
\* happens for that file.
Thm_C10_MissingInputAborted ==
    \A i \in 1..Len(pdf_files) :
        ~DocAt(i).exists =>
            /\ steps[i] = <<>>
            /\ decided[i] = <<>>
            /\ \A k \in 1..Len(saved) : saved[k].file # i
            /\ i <= Len(results) => results[i] = FALSE
            /\ cur = i => pc \in {"glob", "exists"}

\* The conversion of a missing file has returned False and the batch has
\* gone on to its end.
Wit_C10_MissingFileReturnedFalse ==
    /\ pc = "done"
    /\ \E i \in 1..Len(results) :
          /\ ~DocAt(i).exists
          /\ results[i] = FALSE
          /\ i < Len(results)
          /\ steps[i + 1] # <<>>

\* The frame the parser of the given type returns for the document: a
\* result with zero records, when it returns one.
ZeroRecords(kind, doc) ==
    LET parsed == IF kind = "boq" THEN boq_parse(doc)
                  ELSE spec_parse(doc, CHOOSE st \in standards_of(doc) : TRUE)
    IN  parsed.ok /\ parsed.value.rows = <<>>

\* The parser that ran on the document at position i, if one has run.
ParsedAs(i) ==
    IF InSeq("parse_boq", steps[i]) THEN "boq"
    ELSE IF InSeq("parse_spec", steps[i]) THEN "spec"
    ELSE None

\* C11: when the parser that ran on a file returned zero records the
\* conversion of that file returns False, no sheet is created and no
\* workbook is saved for it, nothing is raised and the batch goes on.
Thm_C11_EmptyExtractionAborted ==
    \A i \in 1..Len(pdf_files) :
        (ParsedAs(i) # None /\ ZeroRecords(ParsedAs(i), DocAt(i))) =>
            /\ ~InSeq("sheets_boq", steps[i])
            /\ ~InSeq("sheets_spec", steps[i])
            /\ ~InSeq("save", steps[i])
            /\ \A k \in 1..Len(saved) : saved[k].file # i
            /\ Len(results) >= i
            /\ results[i] = FALSE
            /\ pc # "raised" \/ cur # i

\* A file whose parser returned zero records has been given up and the file
\* after it has been processed.
Wit_C11_EmptyFileThenNext ==
    /\ pc = "done"
    /\ \E i \in 1..Len(pdf_files) :
          /\ i < Len(pdf_files)
          /\ ParsedAs(i) # None
          /\ ZeroRecords(ParsedAs(i), DocAt(i))
          /\ results[i] = FALSE
          /\ steps[i + 1] # <<>>

\* C12: every read handle opened on a document is closed again, also when
\* the extraction raises, before any other handle is opened; handles are
\* opened in the order of the documents and only on the document being
\* processed, so none is open when the next document begins.
Thm_C12_HandlesReleased ==
    /\ Len(handles) % 2 = 0
    /\ \A k \in 1..Len(handles) :
          /\ k % 2 = 1 =>
                /\ handles[k].op = "open"
                /\ handles[k + 1] =
                       HandleEvent("close", handles[k].file, handles[k].use)
          /\ handles[k].file \in 1..Len(pdf_files)
          /\ handles[k].file <= cur
          /\ DocAt(handles[k].file).readable
          /\ \A l \in k..Len(handles) : handles[k].file <= handles[l].file

\* The text extraction of a document has raised inside its with statement,
\* its handle has been closed, and handles of the next document have been
\* opened after that.
Wit_C12_ClosedAfterExtractionError ==
    \E i \in 1..Len(pdf_files) :
        /\ ParsedAs(i) # None
        /\ DocAt(i).readable
        /\ ~extract_text(DocAt(i)).ok
        /\ \E k \in 1..Len(handles) :
              /\ handles[k] = HandleEvent("close", i, "text")
              /\ k < Len(handles)
              /\ handles[k + 1] = HandleEvent("open", i + 1, "text")

----------------------------------------------------------------------------
(* Properties of the BOQ sheet (SpecSheet)                                 *)

\* The BOQ sheet of a workbook.
BOQSheet(book) == book[SheetIndex(book, "BOQ")]

\* The quantity of a line item in hundredths, 0 for an item without one.
QuantityOf(row) ==
    IF row["Quantity"] = None THEN 0 ELSE TextNumber(row["Quantity"]).value

\* The sum over the line items idx+1.. of quantity times unit price.
RECURSIVE PricedTotal(_, _, _)
PricedTotal(rows, ws, idx) ==
    IF idx >= Len(rows) THEN 0
    ELSE (QuantityOf(rows[idx + 1]) * ws.nums[<<data_start_row + idx, 6>>])
                \div 100
            + PricedTotal(rows, ws, idx + 1)

\* The cell of the grand total.
TotalCell == <<data_start_row + Len(df.rows) + 2, 7>>

\* C13: in the saved sheet every unit price is 0; whatever unit prices have
\* been typed in since, the Total Price of every row is a formula whose
\* value is the row's quantity times the row's unit price, and the grand
\* total is a formula whose value is the sum of quantity times unit price
\* over all line items.
Thm_C13_LiveTotals ==
    (pc = "done" /\ doc_type = "boq") =>
        LET ws == BOQSheet(wb)
        IN  /\ \A idx \in 0..(Len(df.rows) - 1) :
                  LET r == data_start_row + idx
                  IN  /\ BOQSheet(saved[1].sheets).nums[<<r, 6>>] = 0
                      /\ IsFormula(ws, <<r, 7>>)
                      /\ cell_value(ws, <<r, 7>>) =
                            Returned((QuantityOf(df.rows[idx + 1])
                                        * ws.nums[<<r, 6>>]) \div 100)
            /\ IsFormula(ws, TotalCell)
            /\ cell_value(ws, TotalCell) = Returned(PricedTotal(df.rows, ws, 0))

\* Quantity 4 priced at 2.50 and quantity 10 priced at 1.00: the grand total
\* shows 20.00.
Wit_C13_TwentyAfterEdits ==
    /\ pc = "done" /\ doc_type = "boq"
    /\ Len(df.rows) = 2
    /\ df.rows[1]["Quantity"] = "4"
    /\ df.rows[2]["Quantity"] = "10"
    /\ BOQSheet(wb).nums[<<data_start_row, 6>>] = 250
    /\ BOQSheet(wb).nums[<<data_start_row + 1, 6>>] = 100
    /\ cell_value(BOQSheet(wb), TotalCell) = Returned(2000)

----------------------------------------------------------------------------
(* Properties of the parsers on text (SpecText)                            *)

\* The text the parsers read: the page's text and the newline added to it.
ParsedText == description \o "\n"

\* The pieces of s between the occurrences of sep.
RECURSIVE SplitBy(_, _, _)
SplitBy(s, sep, p) ==
    IF p + Len(sep) - 1 > Len(s) THEN <<s>>
    ELSE IF SubSeq(s, p, p + Len(sep) - 1) = sep
    THEN <<SubSeq(s, 1, p - 1)>> \o SplitBy(SubSeq(s, p + Len(sep), Len(s)), sep, 1)
    ELSE SplitBy(s, sep, p + 1)

\* The rows of the frame with the given Specification.
RecordsNamed(frame, name) ==
    {r \in 1..Len(frame.rows) : frame.rows[r]["Specification"] = name}

\* The entries of the compliance record, none when there is no record.
ComplianceEntries ==
    IF RecordsNamed(df, "Standards") = {} THEN <<>>
    ELSE SplitBy(df.rows[CHOOSE r \in RecordsNamed(df, "Standards") : TRUE]["Value"],
                 ", ", 1)

\* A standard pattern matches the text at position p.
StandardAt(p) ==
    {i \in 1..Len(standard_patterns) :
        standard_match(ParsedText, p, standard_patterns[i]) > 0}

\* The text is the example of three standards, in some casing.
IsStandardsExample ==
    Lower(description) = "ul 268, nfpa 72, fm approved"

\* C14: the compliance record holds no entry twice; every entry is the
\* upper-cased text of a match of a standard pattern, every place where a
\* pattern matches lies in a match whose upper-cased text is an entry, and at
\* most one record is made.  For 'UL 268, NFPA 72, FM Approved' in any
\* casing the entries are UL 268, NFPA 72 and FM APPROVED.
Thm_C14_StandardsUpperCasedOnce ==
    (pc = "done" /\ doc_type = "spec") =>
        LET entries == ComplianceEntries
            E == {entries[k] : k \in 1..Len(entries)}
        IN  /\ NoRepeat(entries)
            /\ Cardinality(RecordsNamed(df, "Standards")) <= 1
            /\ \A e \in E :
                  /\ Upper(e) = e
                  /\ \E p \in 1..Len(ParsedText) : \E i \in StandardAt(p) :
                        e = Upper(SubSeq(ParsedText, p,
                               p + standard_match(ParsedText, p,
                                       standard_patterns[i]) - 1))
            /\ \A p \in 1..Len(ParsedText) : \A i \in StandardAt(p) :
                  \E q \in 1..p :
                      LET m == standard_match(ParsedText, q, standard_patterns[i])
                      IN  /\ q + m > p
                          /\ Upper(SubSeq(ParsedText, q, q + m - 1)) \in E
            /\ IsStandardsExample => E = {"UL 268", "NFPA 72", "FM APPROVED"}

\* The example in mixed casing has been parsed and its record names the
\* three standards; so has a text that names one standard in two casings.
Wit_C14_ThreeStandardsAnyCase ==
    /\ pc = "done"
    /\ doc_type = "spec"
    /\ description = "Ul 268, nFPA 72, fM aPPROVED"
    /\ Len(ComplianceEntries) = 3
    /\ ComplianceEntries[1] = "NFPA 72"

\* The value of the Model Number record of the frame.
ModelNumberValue ==
    df.rows[CHOOSE r \in RecordsNamed(df, "Model Number") : TRUE]["Value"]

\* Pattern i of model_patterns matches the text at position p.
ModelPatternAt(i, p) ==
    LET q == p + Len(model_patterns[i].word)
        n == RunLen(ParsedText, q, model_patterns[i].seps)
    IN  /\ q - 1 <= Len(ParsedText)
        /\ Lower(SubSeq(ParsedText, p, q - 1)) = Lower(model_patterns[i].word)
        /\ n >= 1
        /\ TokenRun(ParsedText, q + n) >= 1

\* The token pattern i captures at position p.
ModelTokenAt(i, p) ==
    LET q == p + Len(model_patterns[i].word)
        n == RunLen(ParsedText, q, model_patterns[i].seps)
    IN  SubSeq(ParsedText, q + n, q + n + TokenRun(ParsedText, q + n) - 1)

\* The patterns that match somewhere in the text.
MatchingModelPatterns ==
    {i \in 1..Len(model_patterns) :
        \E p \in 1..Len(ParsedText) : ModelPatternAt(i, p)}

\* The model number comes from the first pattern in the order Model, Part,
\* SKU that matches somewhere, at its leftmost match; it is empty when no
\* pattern matches.
FirstPatternWins ==
    IF MatchingModelPatterns = {} THEN ModelNumberValue = ""
    ELSE LET i == Min(MatchingModelPatterns)
             p == Min({x \in 1..Len(ParsedText) : ModelPatternAt(i, x)})
         IN  ModelNumberValue = ModelTokenAt(i, p)

\* The text holds 'Model: SD-2400A' with nothing of the token after it.
HoldsModelExample ==
    \E p \in 1..Len(ParsedText) :
        /\ p + 14 <= Len(ParsedText)
        /\ SubSeq(ParsedText, p, p + 14) = "Model: SD-2400A"
        /\ ~IsTokenChar(CharAt(ParsedText, p + 15))

\* C15: the model number is taken from the first of the patterns Model, Part,
\* SKU that matches, wherever the matches stand; a text that holds
\* 'Model: SD-2400A' yields the Model Number SD-2400A.
Claim_C15_ModelPatternFirst ==
    (pc = "done" /\ doc_type = "spec") =>
        /\ Cardinality(RecordsNamed(df, "Model Number")) = 1
        /\ FirstPatternWins
        /\ HoldsModelExample => ModelNumberValue = "SD-2400A"

----------------------------------------------------------------------------
(* Properties of the saved workbooks (Spec)                                *)

\* The titles of the sheets of a workbook, in order.
Titles(book) == [k \in 1..Len(book) |-> book[k].title]

\* The header cells of a sheet: the str cells of the header row, by column.
HeaderCells(ws) ==
    LET cols == {x[2] : x \in {y \in DOMAIN ws.strs : y[1] = header_row}}
    IN  IF cols = 1..Cardinality(cols)
        THEN [c \in 1..Cardinality(cols) |-> ws.strs[<<header_row, c>>]]
        ELSE <<>>

\* The saves made for the file at position i.
SavesOf(i) == {k \in 1..Len(saved) : saved[k].file = i}

\* C16: a conversion that returned True has saved exactly one workbook, one
\* that returned False none.  The workbook of a BOQ conversion holds the
\* sheets Summary and BOQ in this order, that of a SPEC conversion the sheet
\* Specifications alone; the header row of the BOQ sheet reads Item No,
\* Description, Quantity, Unit, Category, Unit Price, Total Price and that of
\* the Specifications sheet Category, Specification, Value.
Thm_C16_OneWorkbookPerConversion ==
    \A i \in 1..Len(results) :
        IF ~results[i] THEN SavesOf(i) = {}
        ELSE /\ Cardinality(SavesOf(i)) = 1
             /\ LET book == saved[CHOOSE k \in SavesOf(i) : TRUE].sheets
                IN  IF ParsedAs(i) = "boq"
                    THEN /\ Titles(book) = <<"Summary", "BOQ">>
                         /\ HeaderCells(book[2]) =
                               <<"Item No", "Description", "Quantity", "Unit",
                                 "Category", "Unit Price", "Total Price">>
                    ELSE /\ ParsedAs(i) = "spec"
                         /\ Titles(book) = <<"Specifications">>
                         /\ HeaderCells(book[1]) =
                               <<"Category", "Specification", "Value">>

\* A batch has ended in which a BOQ conversion and a SPEC conversion have
\* each saved their workbook.
Wit_C16_BothKindsSaved ==
    /\ pc = "done"
    /\ Len(saved) = 2
    /\ results = <<TRUE, TRUE>>
    /\ ParsedAs(1) # ParsedAs(2)

----------------------------------------------------------------------------
(* Properties of the summary sheet (SpecSheet)                             *)

\* The rows of the summary sheet below its header that name a category.
SummaryRows(ws) == {x[1] : x \in {y \in DOMAIN ws.strs : y[1] > header_row /\ y[2] = 1}}

\* The line items of the frame with the category.
ItemsOf(frame, c) == {r \in 1..Len(frame.rows) : frame.rows[r]["Category"] = c}

\* The sum of the counts in the rows R of the summary sheet.
RECURSIVE CountSum(_, _)
CountSum(ws, R) ==
    IF R = {} THEN 0
    ELSE LET r == CHOOSE x \in R : TRUE
         IN  ws.nums[<<r, 2>>] + CountSum(ws, R \ {r})

\* C17: the summary sheet holds exactly one row for each category that occurs
\* among the line items, its count is the number of line items of that
\* category, no row names a category that does not occur, and the counts add
\* up to the number of line items.
Thm_C17_SummaryCountsByCategory ==
    (pc = "done" /\ doc_type = "boq") =>
        LET ws == wb[SheetIndex(wb, "Summary")]
        IN  /\ \A i \in 1..Len(df.rows) :
                  LET c == df.rows[i]["Category"]
                      R == {r \in SummaryRows(ws) : ws.strs[<<r, 1>>] = c}
                  IN  /\ Cardinality(R) = 1
                      /\ \A r \in R :
                            ws.nums[<<r, 2>>] = Cardinality(ItemsOf(df, c))
            /\ \A r \in SummaryRows(ws) : ItemsOf(df, ws.strs[<<r, 1>>]) # {}
            /\ CountSum(ws, SummaryRows(ws)) = Len(df.rows)

\* Two line items of one category are counted in one row of the summary.
Wit_C17_TwoItemsOneRow ==
    /\ pc = "done" /\ doc_type = "boq"
    /\ Len(df.rows) = 2
    /\ df.rows[1]["Description"] # df.rows[2]["Description"]
    /\ df.rows[1]["Category"] = df.rows[2]["Category"]
    /\ SummaryRows(wb[1]) = {header_row + 1}
    /\ wb[1].nums[<<header_row + 1, 2>>] = 2

----------------------------------------------------------------------------
(* Properties of BOQParser.parse on tables (SpecTables)                    *)

\* The rows of the tables below their headers, in the order of the tables,
\* each with the header of its table.
RECURSIVE FlatRows(_)
FlatRows(ts) ==
    IF ts = <<>> THEN <<>>
    ELSE (IF Head(ts) = <<>> THEN <<>>
          ELSE [r \in 1..(Len(Head(ts)) - 1) |->
                   [header |-> Head(ts)[1], cells |-> Head(ts)[r + 1]]])
            \o FlatRows(Tail(ts))

\* Table extraction returns one table or more.
TableMode == \E k \in 1..Len(page_tables) : page_tables[k] # <<>>

\* The line items are the rows of the tables, in order, cell by cell.
RowsAreTableRows ==
    /\ Len(df.rows) = Len(FlatRows(page_tables))
    /\ \A r \in 1..Len(df.rows) :
          LET row == FlatRows(page_tables)[r]
          IN  \A j \in 1..Len(row.header) :
                  row.header[j] # "Category" =>
                      /\ row.header[j] \in DOMAIN df.rows[r]
                      /\ df.rows[r][row.header[j]] = row.cells[j]

\* C18: when table extraction returns one table or more the line items are
\* the rows of the tables and text mode is not used, also when the tables
\* cannot be processed; when it returns none the line items are those of
\* parse_boq_structure on the text.
Thm_C18_TablesBeforeText ==
    pc = "done" =>
        IF TableMode
        THEN IF results[1] THEN RowsAreTableRows ELSE df = EmptyFrame
        ELSE /\ results[1]
             /\ df = FrameOfItems(parse_boq_structure(ParsedText))

\* The page has a table and text lines that match the item pattern; the
\* line items are the rows of the table.
Wit_C18_TableRowsDespiteItemLines ==
    /\ pc = "done"
    /\ TableMode
    /\ parse_boq_structure(ParsedText) # <<>>
    /\ results = <<TRUE>>
    /\ Len(df.rows) = 1
    /\ df.rows[1]["Item"] = "Strobe"

\* C19: in table mode, whatever the headers of the tables, the line items are
\* the rows below the headers of all tables in table order, as many as there
\* are such rows, and the category of each is the classifier's result for the
\* second cell of its row.
Claim_C19_TableRowsConcatenated ==
    (pc = "done" /\ TableMode) =>
        /\ results[1]
        /\ RowsAreTableRows
        /\ \A r \in 1..Len(df.rows) :
              df.rows[r]["Category"] =
                  categorize_smoke_detector_item(FlatRows(page_tables)[r].cells[2])

----------------------------------------------------------------------------
(* Properties of text mode (SpecText)                                      *)

\* The lines of the text handed to parse_boq_structure, without the
\* whitespace around them.
TextLines ==
    LET lines == SplitBy(ParsedText, "\n", 1)
    IN  [i \in 1..Len(lines) |-> Strip(lines[i])]

\* An item number: digits, then possibly a point and digits.
IsItemNumber(t) ==
    /\ Len(t) >= 1
    /\ IsDigit(CharAt(t, 1))
    /\ \A k \in 1..Len(t) : IsDigit(CharAt(t, k)) \/ CharAt(t, k) = "."
    /\ Cardinality({k \in 1..Len(t) : CharAt(t, k) = "."}) <= 1

\* The line is an item number, whitespace and more.
IsItemLine(line) ==
    \E k \in 2..Len(line) :
        IsSpace(CharAt(line, k)) /\ IsItemNumber(SubSeq(line, 1, k - 1))

ItemLineNumbers == {i \in 1..Len(TextLines) : IsItemLine(TextLines[i])}

\* The r-th of the lines that are item lines.
ItemLineAt(r) ==
    TextLines[CHOOSE i \in ItemLineNumbers :
                 Cardinality({j \in ItemLineNumbers : j < i}) = r - 1]

IsBlank(s) == \A k \in 1..Len(s) : IsSpace(CharAt(s, k))

\* The item is read from the line: the item number, whitespace, the
\* description and, when there is one, whitespace and the quantity.
ItemReadFrom(item, line) ==
    LET number == item["Item No"]
        desc == item["Description"]
        rest == IF item["Quantity"] = None THEN "" ELSE item["Quantity"]
    IN  /\ IsItemNumber(number)
        /\ desc # ""
        /\ \E a \in 1..Len(line), b \in 0..Len(line) :
              /\ SubSeq(line, 1, a) = number
              /\ a + 1 < b /\ IsBlank(SubSeq(line, a + 1, b - 1))
              /\ SubSeq(line, b, b + Len(desc) - 1) = desc
              /\ LET tail == SubSeq(line, b + Len(desc), Len(line))
                 IN  IF rest = "" THEN tail = ""
                     ELSE /\ Len(tail) > Len(rest)
                          /\ SubSeq(tail, Len(tail) - Len(rest) + 1,
                                    Len(tail)) = rest
                          /\ IsBlank(SubSeq(tail, 1, Len(tail) - Len(rest)))

\* C20: in text mode the line items are, in the order of the lines, one for
\* each line that is an item line and none for any other line; each has a
\* description that is not empty, the unit _extract_unit gives for the
\* description and the category the classifier gives for it.
Thm_C20_TextModeLineByLine ==
    (pc = "done" /\ doc_type = "boq") =>
        /\ boq_parse(TextDocument(description)).ok
        /\ Len(df.rows) = Cardinality(ItemLineNumbers)
        /\ \A r \in 1..Len(df.rows) :
              /\ ItemReadFrom(df.rows[r], ItemLineAt(r))
              /\ df.rows[r]["Unit"] = extract_unit(df.rows[r]["Description"])
              /\ df.rows[r]["Category"] =
                    categorize_smoke_detector_item(df.rows[r]["Description"])

\* Five lines, one of them no item line and one empty, give three line
\* items in the order of their lines.
Wit_C20_ThreeItemsOfFiveLines ==
    /\ pc = "done" /\ doc_type = "boq"
    /\ Len(TextLines) > 3
    /\ \E i \in 1..Len(TextLines) : TextLines[i] = "Site notes"
    /\ Len(df.rows) = 3
    /\ df.rows[1]["Description"] = "Smoke Detector"
    /\ df.rows[2]["Description"] = "Horn"
    /\ df.rows[3]["Description"] = "Conduit"

Blanks(s) == {k \in 1..Len(s) : IsSpace(CharAt(s, k))}

Least(S) == CHOOSE k \in S : \A j \in S : k <= j

Greatest(S) == CHOOSE k \in S : \A j \in S : j <= k

\* A numeric token: digits, or digits, a point and digits.
IsNumericToken(t) ==
    /\ Len(t) >= 1
    /\ IsDigit(CharAt(t, 1)) /\ IsDigit(CharAt(t, Len(t)))
    /\ \A k \in 1..Len(t) : IsDigit(CharAt(t, k)) \/ CharAt(t, k) = "."
    /\ Cardinality({k \in 1..Len(t) : CharAt(t, k) = "."}) <= 1

\* What an item line says: the identifier up to the first blank, the rest
\* of the line and, when the rest ends with a numeric token after other
\* words, that token and the words before it.
LineFields(line) ==
    LET first == Least(Blanks(line))
        rest == Strip(SubSeq(line, first, Len(line)))
        last == IF Blanks(rest) = {} THEN 0 ELSE Greatest(Blanks(rest))
        token == SubSeq(rest, last + 1, Len(rest))
    IN  IF last > 0 /\ IsNumericToken(token)
        THEN [item_no |-> SubSeq(line, 1, first - 1),
              description |-> Strip(SubSeq(rest, 1, last)),
              quantity |-> token]
        ELSE [item_no |-> SubSeq(line, 1, first - 1),
              description |-> rest,
              quantity |-> None]

\* C21: the line item of a text-mode line has the identifier of the line
\* verbatim as its item number; when the line ends with a numeric token
\* after a description the quantity is that token and the description is
\* what stands between the two, otherwise the quantity is absent and the
\* description is the rest of the line.
Thm_C21_LineFields ==
    (pc = "done" /\ doc_type = "boq") =>
        \A r \in 1..Len(df.rows) :
            r <= Cardinality(ItemLineNumbers) =>
                LET fields == LineFields(ItemLineAt(r))
                IN  /\ df.rows[r]["Item No"] = fields.item_no
                    /\ df.rows[r]["Description"] = fields.description
                    /\ df.rows[r]["Quantity"] = fields.quantity

\* Lines with a decimal identifier and a decimal quantity, with a number
\* inside the description, and without a final numeric token.
Wit_C21_DecimalsAndNoQuantity ==
    /\ pc = "done" /\ doc_type = "boq"
    /\ Len(df.rows) = 4
    /\ df.rows[1]["Item No"] = "1.2" /\ df.rows[1]["Quantity"] = "2.5"
    /\ df.rows[1]["Description"] = "Cable"
    /\ df.rows[2]["Description"] = "Horn 24V" /\ df.rows[2]["Quantity"] = "10"
    /\ df.rows[3]["Description"] = "2 x 1.5 mm"
    /\ df.rows[3]["Quantity"] = None
    /\ df.rows[4]["Quantity"] = None

----------------------------------------------------------------------------
(* Properties of the type and the parser of a conversion (Spec)            *)

\* The places in the steps of document i where a parser runs.
ParserSteps(i) ==
    {k \in 1..Len(steps[i]) : steps[i][k] \in {"parse_boq", "parse_spec"}}

\* The type of document i is decided at most once and before the parser
\* runs; the parser and the sheets are those of that type; a type the caller
\* gives is taken as it is, without the classifier.
TypeDecidedOnce(i) ==
    /\ Len(decided[i]) <= 1
    /\ Cardinality(ParserSteps(i)) <= 1
    /\ \A k \in 1..Len(steps[i]) : steps[i][k] = "detect" => k = 1
    /\ doc_type_arg # "auto" =>
          /\ ~InSeq("detect", steps[i])
          /\ decided[i] = <<>>
    /\ \A k \in ParserSteps(i) :
          IF doc_type_arg = "auto"
          THEN /\ decided[i] # <<>>
               /\ steps[i][k] = "parse_" \o decided[i][1]
               /\ k = 2
          ELSE steps[i][k] = "parse_" \o doc_type_arg
    /\ InSeq("sheets_boq", steps[i]) => InSeq("parse_boq", steps[i])
    /\ InSeq("sheets_spec", steps[i]) => InSeq("parse_spec", steps[i])
    /\ (cur = i /\ pc \in {"parse", "sheets", "save"}) =>
          doc_type = IF doc_type_arg = "auto" THEN decided[i][1]
                     ELSE doc_type_arg

----------------------------------------------------------------------------
(* Properties of SpecSheetParser.parse (SpecText)                          *)

\* The four categories, in the order of emission.
RecordCategories ==
    <<"Product Information", "Technical Specifications", "Compliance",
      "Features">>

CategoryRank(cat) ==
    CHOOSE k \in 1..Len(RecordCategories) : RecordCategories[k] = cat

RecordsOf(cat) == {r \in 1..Len(df.rows) : df.rows[r]["Category"] = cat}

\* C23: the records are the Model Number and the Product Type of Product
\* Information, then the Technical Specifications, then at most one
\* Compliance record, then at most one Features record; every category is
\* one of the four and the records of a category stand together.
Thm_C23_RecordsInFixedOrder ==
    (pc = "done" /\ doc_type = "spec") =>
        /\ Len(df.rows) >= 2
        /\ RecordsOf("Product Information") = {1, 2}
        /\ df.rows[1]["Specification"] = "Model Number"
        /\ df.rows[2]["Specification"] = "Product Type"
        /\ \A r \in 1..Len(df.rows) :
              InSeq(df.rows[r]["Category"], RecordCategories)
        /\ \A r \in 1..(Len(df.rows) - 1) :
              CategoryRank(df.rows[r]["Category"])
                 <= CategoryRank(df.rows[r + 1]["Category"])
        /\ Cardinality(RecordsOf("Compliance")) <= 1
        /\ Cardinality(RecordsOf("Features")) <= 1

\* A text with a model, two technical data, a standard and a feature gives
\* six records of the four categories in their order.
Wit_C23_AllFourCategories ==
    /\ pc = "done" /\ doc_type = "spec"
    /\ [r \in 1..Len(df.rows) |-> df.rows[r]["Category"]]
          = <<"Product Information", "Product Information",
              "Technical Specifications", "Technical Specifications",
              "Compliance", "Features">>

\* C24: each of the eight fields has a record exactly when its own pattern
\* matches the text, whatever the other patterns do; it has one record at
\* most, and the value is the text the pattern captured, as it stands in
\* the text.
Thm_C24_FieldsIndependent ==
    (pc = "done" /\ doc_type = "spec") =>
        /\ Cardinality(RecordsOf("Technical Specifications"))
              = Cardinality({f \in 1..Len(tech_patterns) :
                    search_spec(tech_patterns[f], ParsedText) # None})
        /\ \A f \in 1..Len(tech_patterns) :
              LET named == {r \in RecordsOf("Technical Specifications") :
                              df.rows[r]["Specification"]
                                 = tech_patterns[f].name}
                  captured == search_spec(tech_patterns[f], ParsedText)
              IN  IF captured = None THEN named = {}
                  ELSE /\ Cardinality(named) = 1
                       /\ \A r \in named :
                             /\ df.rows[r]["Value"] = captured
                             /\ Contains(ParsedText, df.rows[r]["Value"])

\* The weight stands before the voltage in the text: both have their
\* record, the voltage first.
Wit_C24_TwoFieldsBothRecorded ==
    /\ pc = "done" /\ doc_type = "spec"
    /\ description = "Weight: 1.5 kg\nVoltage: 24 VDC"
    /\ Len(df.rows) = 4
    /\ df.rows[3]["Specification"] = "Operating Voltage"
    /\ df.rows[4]["Specification"] = "Weight"
    /\ df.rows[4]["Value"] = "1.5 kg"

\* The features of the fixed list as they are written in the record.
FeatureTitles ==
    <<"Addressable", "Wireless", "Photoelectric", "Ionization",
      "Multi-Sensor", "Dual Sensor", "Heat Detection", "Smoke Detection",
      "Tamper Resistant", "Led Indicator", "Test Button", "Low Battery",
      "Self-Diagnostic", "Drift Compensation", "Alarm Memory">>

\* The features whose keyword occurs somewhere in the lower-cased text.
FeaturesPresent ==
    {k \in 1..Len(FeatureTitles) :
        Contains(Lower(ParsedText), Lower(FeatureTitles[k]))}

\* The entries of the Features record, none when there is no record.
FeatureEntries ==
    IF RecordsNamed(df, "Key Features") = {} THEN <<>>
    ELSE SplitBy(df.rows[CHOOSE r \in RecordsNamed(df, "Key Features") :
                            TRUE]["Value"], ", ", 1)

\* C25: the Features record names exactly the features whose keyword occurs
\* in the lower-cased text, wherever and after whatever word, each once and
\* in the order of the list; there is no Features record when none occurs.
Thm_C25_FeaturesByPresence ==
    (pc = "done" /\ doc_type = "spec") =>
        /\ Cardinality(RecordsNamed(df, "Key Features"))
              = IF FeaturesPresent = {} THEN 0 ELSE 1
        /\ Cardinality(RecordsOf("Features"))
              = Cardinality(RecordsNamed(df, "Key Features"))
        /\ Len(FeatureEntries) = Cardinality(FeaturesPresent)
        /\ \A j \in 1..Len(FeatureEntries) :
              \E k \in FeaturesPresent :
                  /\ FeatureEntries[j] = FeatureTitles[k]
                  /\ Cardinality({m \in FeaturesPresent : m < k}) = j - 1

\* The text says not wireless before it names two other features: the
\* record holds Wireless, in the order of the list.
Wit_C25_NotWirelessIsWireless ==
    /\ pc = "done" /\ doc_type = "spec"
    /\ description = "not wireless\nAddressable, LED indicators"
    /\ FeatureEntries = <<"Addressable", "Wireless", "Led Indicator">>

\* C29: the result of SpecSheetParser.parse is never without records: it
\* starts with the Model Number record and the Product Type record, their
\* values empty when the text names no model and no product type, so the
\* frame is not empty and the conversion does not abort for want of data.
Thm_C29_SpecNeverEmpty ==
    (pc = "done" /\ doc_type = "spec") =>
        /\ ~IsEmptyFrame(df)
        /\ Len(df.rows) >= 2
        /\ df.rows[1]["Specification"] = "Model Number"
        /\ df.rows[2]["Specification"] = "Product Type"
        /\ (\A w \in {"model", "part", "sku"} :
               ~Contains(Lower(ParsedText), w)) => df.rows[1]["Value"] = ""
        /\ (\A w \in {"detector", "panel", "device", "horn", "strobe",
                      "station"} :
               ~Contains(Lower(ParsedText), w)) => df.rows[2]["Value"] = ""

\* Nothing is recognised in the text: the two records alone, both values
\* empty.
Wit_C29_NothingRecognised ==
    /\ pc = "done" /\ doc_type = "spec"
    /\ description = "Site notes"
    /\ Len(df.rows) = 2
    /\ df.rows[1]["Value"] = "" /\ df.rows[2]["Value"] = ""

----------------------------------------------------------------------------
(* Properties of the specification sheet (SpecSheet)                       *)

\* What the cell of the row and column of the sheet shows, "" for an empty
\* cell.
Shown(ws, r, c) ==
    IF <<r, c>> \in DOMAIN ws.strs THEN ws.strs[<<r, c>>] ELSE ""

\* C26: the rows of the specification sheet are the records in their order;
\* the category stands in the first row and in every row whose category is
\* not that of the row before, and the category cell of every other row is
\* empty.
Thm_C26_CategoryOncePerRun ==
    (pc = "done" /\ doc_type = "spec") =>
        LET ws == wb[SheetIndex(wb, "Specifications")]
        IN  /\ \A r \in 1..Len(df.rows) :
                  /\ Shown(ws, header_row + r, 2) = df.rows[r]["Specification"]
                  /\ Shown(ws, header_row + r, 3) = df.rows[r]["Value"]
                  /\ Shown(ws, header_row + r, 1) =
                        IF r = 1 \/ df.rows[r]["Category"]
                                       # df.rows[r - 1]["Category"]
                        THEN df.rows[r]["Category"]
                        ELSE ""
            /\ \A x \in DOMAIN ws.strs : x[1] <= header_row + Len(df.rows)

\* The fixture: ten records in four runs, the label at the head of each run
\* only.
Wit_C26_FixtureFourRuns ==
    /\ pc = "done" /\ doc_type = "spec"
    /\ df = sample_spec_data
    /\ LET ws == wb[SheetIndex(wb, "Specifications")]
       IN  {r \in 1..Len(df.rows) : Shown(ws, header_row + r, 1) # ""}
              = {1, 3, 8, 9}

----------------------------------------------------------------------------
(* Properties of the category table (SpecItem)                             *)

\* The categories under which the word is listed.
ListedUnder(w) ==
    {c \in 1..Len(categories) : InSeq(w, categories[c].keywords)}

\* C27: a description that is exactly a keyword of the table is classified
\* as the category under which the keyword is listed.
Claim_C27_EveryKeywordEffective ==
    \A c \in ListedUnder(description) :
        category # None => category = categories[c].name

----------------------------------------------------------------------------
(* Properties of the return value and the save (Spec)                      *)

\* The sheets a conversion of the steps has created when it saves.
SheetsCreated(done) ==
    IF InSeq("sheets_boq", done) THEN <<"Summary", "BOQ">>
    ELSE IF InSeq("sheets_spec", done) THEN <<"Specifications">>
    ELSE <<>>

\* C28: the conversion of a file returns True exactly when it saved the
\* workbook: a conversion that returned False saved nothing, and one that
\* returned True saved once, as its last step, after the sheets of the
\* document were created, the workbook holding those sheets; no conversion
\* saves twice.
Thm_C28_TrueIffSaved ==
    \A i \in 1..Len(pdf_files) :
        /\ Cardinality(SavesOf(i)) <= 1
        /\ SavesOf(i) # {} => (i <= Len(results) /\ results[i])
        /\ (i <= Len(results) /\ results[i]) =>
              /\ Cardinality(SavesOf(i)) = 1
              /\ steps[i] # <<>>
              /\ steps[i][Len(steps[i])] = "save"
              /\ Cardinality({k \in 1..Len(steps[i]) : steps[i][k] = "save"}) = 1
              /\ SheetsCreated(steps[i]) # <<>>
              /\ \A k \in SavesOf(i) :
                    Titles(saved[k].sheets) = SheetsCreated(steps[i])

\* One file is converted and saved, the output of the next cannot be
\* written: True with one save, then False without a save.
Wit_C28_SavedThenSaveFailed ==
    /\ pc = "done"
    /\ results = <<TRUE, FALSE>>
    /\ Cardinality(SavesOf(1)) = 1
    /\ SavesOf(2) = {}
    /\ InSeq("save", steps[2])

----------------------------------------------------------------------------
(* Properties of the rows of the BOQ sheet (SpecSheet)                     *)

\* The rows the SUM formula of the grand total adds up.
SumRows(ws) ==
    LET f == ws.strs[TotalCell]
        first == cell_ref(f, 6)
        last == cell_ref(f, 6 + first.len + 1)
    IN  first.at[1]..last.at[1]

\* The rows of the sheet that hold a line item.
ItemRows == {data_start_row + idx : idx \in 0..(Len(df.rows) - 1)}

\* C30: line item idx stands in row 5 + idx, and the SUM formula of the
\* grand total adds up exactly the rows that hold a line item: no row
\* without one, and not the row of the grand total.
Claim_C30_SumOverItemRows ==
    (pc = "done" /\ doc_type = "boq") =>
        LET ws == BOQSheet(wb)
        IN  /\ \A idx \in 0..(Len(df.rows) - 1) :
                  /\ Shown(ws, data_start_row + idx, 1)
                        = df.rows[idx + 1]["Item No"]
                  /\ Shown(ws, data_start_row + idx, 2)
                        = df.rows[idx + 1]["Description"]
            /\ IsFormula(ws, TotalCell)
            /\ TotalCell[1] \notin SumRows(ws)
            /\ SumRows(ws) = ItemRows

====
